---------------------------- MODULE Spec2Model ----------------------------
(***************************************************************************)
(* A model of the block-authoring and sealing core of the node             *)
(* (ethcore/src/miner/miner.rs): the Miner, its sealing state, the work    *)
(* history, and the entry points of MinerService.                          *)
(*                                                                         *)
(* Every handler is a function from a miner record m to a miner record;    *)
(* m.ret holds the handler's return value and m.trace the calls it made    *)
(* (locks taken and released, calls into the pool, the chain client, the   *)
(* engine and the listeners), in order.  The actions apply one handler to  *)
(* the current state with inputs chosen by the environment.                *)
(***************************************************************************)
EXTENDS Integers, Sequences, FiniteSets, TLC

VARIABLES options, sealing, params, listeners, pool, chain, engine, accounts, now, out

vars == <<options, sealing, params, listeners, pool, chain, engine, accounts, now, out>>

---------------------------------------------------------------------------
(* Bounds of the model *)

\* transactions are 1..MaxTx
MaxTx == 1
\* the clock runs from 0 to MaxTime
MaxTime == 1
\* the chain's head changes at most MaxHeads times
MaxHeads == 2
\* the best block number stays at or below MaxBest
MaxBest == 7
\* at most MaxListeners work listeners are registered
MaxListeners == 1
\* authoring parameters are drawn from 0..MaxParam
MaxParam == 1

(* Configuration values *)

\* MinerOptions.work_queue_size
work_queue_size == 2
\* MinerOptions.reseal_min_period
reseal_min_period == 0
\* MinerOptions.reseal_max_period
reseal_max_period == 1

SEALING_TIMEOUT_IN_BLOCKS == 5

Txs == 1..MaxTx

None == <<>>
Some(x) == <<x>>
IsSome(o) == o # <<>>

---------------------------------------------------------------------------
(* Helpers *)

Max2(a, b) == IF a >= b THEN a ELSE b

RECURSIVE SortedSeq(_)
\* the elements of a finite set of integers, in ascending order
SortedSeq(S) ==
    IF S = {} THEN <<>>
    ELSE LET x == CHOOSE y \in S : \A z \in S : y <= z
         IN <<x>> \o SortedSeq(S \ {x})

Range(s) == { s[i] : i \in 1..Len(s) }

---------------------------------------------------------------------------
(* ClosedBlock: the header fields the core reads, and the transactions *)

\* the hash of a block's header: a function of what the header commits to (the
\* header's timestamp is left out: candidates are told apart by parent, number,
\* transactions and authoring parameters)
Hash(b) == <<b.parent, b.number, b.txs, b.author, b.gas_range_target, b.extra_data>>

---------------------------------------------------------------------------
(* UsingQueue: the bounded work history *)

UsingQueueNew(max_size) == [items |-> <<>>, in_use |-> FALSE, max_size |-> max_size]

\* append; drop the oldest on overflow; clear "in use"
QueuePush(q, b) ==
    LET all == Append(q.items, b)
    IN [q EXCEPT !.items = IF Len(all) > q.max_size THEN Tail(all) ELSE all,
                 !.in_use = FALSE]

QueuePeekLast(q) == IF Len(q.items) = 0 THEN None ELSE Some(q.items[Len(q.items)])

\* remove and return the newest element if it satisfies the predicate; the
\* predicate is given as the set of elements that satisfy it
QueuePopIf(q, pred) ==
    IF Len(q.items) > 0 /\ q.items[Len(q.items)] \in pred
    THEN [q |-> [q EXCEPT !.items = SubSeq(q.items, 1, Len(q.items) - 1)],
          ret |-> Some(q.items[Len(q.items)])]
    ELSE [q |-> q, ret |-> None]

\* a scan that settles for the newest element whatever the predicate
FindNewest(q, pred) == Len(q.items)

\* the index of the newest element satisfying the predicate, or 0
QueueFindLast(q, pred) ==
    LET hits == { i \in 1..Len(q.items) : q.items[i] \in pred }
    IN IF hits = {} THEN 0 ELSE CHOOSE i \in hits : \A j \in hits : j <= i

RemoveAt(s, i) == SubSeq(s, 1, i - 1) \o SubSeq(s, i + 1, Len(s))

\* scan from newest to oldest; Clone leaves the match in place, Take removes it;
\* both mark the history in use
QueueGetUsedIf(q, action, pred) ==
    LET i == QueueFindLast(q, pred)
    IN IF i = 0 THEN [q |-> q, ret |-> None]
       ELSE IF action = "Clone"
            THEN [q |-> [q EXCEPT !.in_use = TRUE], ret |-> Some(q.items[i])]
            ELSE [q |-> [q EXCEPT !.items = RemoveAt(q.items, i), !.in_use = TRUE],
                  ret |-> Some(q.items[i])]

QueueUseLastRef(q) == [q EXCEPT !.in_use = Len(q.items) > 0]

QueueIsInUse(q) == q.in_use

QueueReset(q) == [q EXCEPT !.items = <<>>, !.in_use = FALSE]

---------------------------------------------------------------------------
(* The miner record and its bookkeeping *)

\* the current state as one record; handlers map such a record to another
Miner ==
    [options |-> options, sealing |-> sealing, params |-> params, listeners |-> listeners,
     pool |-> pool, chain |-> chain, engine |-> engine, accounts |-> accounts, now |-> now,
     ret |-> None, trace |-> <<>>]

Ev(m, e) == [m EXCEPT !.trace = Append(@, e)]
Ret(m, r) == [m EXCEPT !.ret = r]

SealingLock(m) == Ev(m, [k |-> "lock"])
SealingUnlock(m) == Ev(m, [k |-> "unlock"])
PoolCall(m, f) == Ev(m, [k |-> "pool", f |-> f])
ChainCall(m, f) == Ev(m, [k |-> "chain", f |-> f])
EngineCall(m, f) == Ev(m, [k |-> "engine", f |-> f])

---------------------------------------------------------------------------
(* Collaborators: engine, chain client, transaction pool *)

\* an engine that never answers that it seals internally
NeverSealsInternally(m) == None

\* Engine::seals_internally: None, Some(TRUE) or Some(FALSE)
SealsInternally(m) == m.engine.seals

\* the chain client makes an imported block its best block when it extends the head
ImportSealedBlock(c, b) ==
    IF b.parent = c.best_hash
    THEN [c EXCEPT !.best_number = b.number, !.best_hash = c.heads + 1,
                   !.heads = c.heads + 1, !.mined = @ \cup Range(b.txs)]
    ELSE c

\* TransactionQueue::pending: the pool's transactions in pool order
PoolPending(p) == SortedSeq(p.txs)

PoolRemove(p, hashes) == [txs |-> p.txs \ hashes, local |-> p.local \ hashes]

\* TransactionQueue::import of one transaction; ok is the verifier's verdict
PoolImport(p, tx, is_local, ok) ==
    IF ok THEN [txs |-> p.txs \cup {tx}, local |-> IF is_local THEN p.local \cup {tx} ELSE p.local]
    ELSE p

\* TransactionQueue::cull: drop what the chain has already included
PoolCull(p, c) == PoolRemove(p, c.mined)

---------------------------------------------------------------------------
(* Miner::forced_sealing *)

\* a miner whose sealing is always forced
AlwaysForced(m) == TRUE

forced_sealing(m) == m.options.force_sealing \/ m.listeners > 0

(* SealingWork::reseal_allowed *)

\* a throttle that lets every reseal through
ResealAlwaysAllowed(m) == TRUE

\* a throttle that never lets a reseal through
ResealNeverAllowed(m) == FALSE

reseal_allowed(m) == m.now > m.sealing.next_allowed_reseal

---------------------------------------------------------------------------
(* Miner::requires_reseal *)

\* a guard that returns early when sealing is not enabled
EarlyReturnWhenDisabled(m) == ~m.sealing.enabled

\* the guard on the enabled flag at the head of requires_reseal
RequiresResealEarlyReturn(m) == m.sealing.enabled

\* the last clause of sealing_enabled
SealingTimeoutClause(best_block, last_request) ==
    best_block > last_request /\ best_block - last_request > SEALING_TIMEOUT_IN_BLOCKS

\* requires_reseal after the early return: m2 is the miner once the pool was
\* asked for local transactions
requires_reseal_check(m2, best_block) ==
    LET has_local_transactions == m2.pool.local # {}
        last_request == m2.sealing.sealing_block_last_request
        m3 == IF forced_sealing(m2) \/ has_local_transactions
              THEN m2 ELSE EngineCall(m2, "seals_internally")
        sealing_enabled ==
            \/ forced_sealing(m2)
            \/ has_local_transactions
            \/ IsSome(SealsInternally(m2))
            \/ SealingTimeoutClause(best_block, last_request)
        should_disable_sealing == ~sealing_enabled
    IN IF should_disable_sealing
       THEN Ret(SealingUnlock([m3 EXCEPT !.sealing.enabled = FALSE,
                                         !.sealing.queue = QueueReset(@)]), FALSE)
       ELSE Ret(SealingUnlock([m3 EXCEPT !.sealing.next_allowed_reseal =
                                             m2.now + m2.options.reseal_min_period]), TRUE)

requires_reseal(m, best_block) ==
    LET m1 == SealingLock(m)
    IN IF RequiresResealEarlyReturn(m1)
       THEN Ret(SealingUnlock(m1), FALSE)
       ELSE requires_reseal_check(PoolCall(m1, "has_local_transactions"), best_block)

---------------------------------------------------------------------------
(* Miner::prepare_block *)

\* what verifying and pushing one transaction onto an open block can answer
VerifyErrors == {"NotAllowed", "VerifyFailed"}
GasLimitOutcomes == {"GasLimit", "GasLimitOver", "GasLimitFull", "GasLimitOverFull"}
PushOutcomes == {"Ok", "InvalidNonce", "ExecFailed"} \cup GasLimitOutcomes \cup VerifyErrors

\* client.verify_signed, then open_block.push_transaction, which refuses a
\* transaction the block already holds; oc is what the state answers otherwise
PushResult(block_txs, tx, oc) ==
    IF oc[tx] \in VerifyErrors THEN oc[tx]
    ELSE IF tx \in Range(block_txs) THEN "AlreadyImported"
    ELSE oc[tx]

\* the limit on gas-limit skips in one assembly
MaxSkipped == 8

\* a match that takes an invalid nonce for a gas-limit skip
DrainStepCountingNonce(acc, tx, oc) ==
    LET result == PushResult(acc.txs, tx, oc)
    IN CASE result \in GasLimitOutcomes \cup {"InvalidNonce"} ->
              LET over == result \in {"GasLimitOver", "GasLimitOverFull"}
                  full == result \in {"GasLimitFull", "GasLimitOverFull"}
                  inv == IF over THEN acc.invalid \cup {tx} ELSE acc.invalid
              IN IF full
                 THEN [acc EXCEPT !.invalid = inv, !.stopped = TRUE]
                 ELSE [acc EXCEPT !.invalid = inv, !.skipped = acc.skipped + 1,
                                  !.stopped = acc.skipped + 1 > MaxSkipped]
         [] result = "AlreadyImported" -> acc
         [] result = "NotAllowed" -> [acc EXCEPT !.not_allowed = @ \cup {tx}]
         [] result = "Ok" -> [acc EXCEPT !.txs = Append(@, tx), !.tx_count = @ + 1]
         [] OTHER -> [acc EXCEPT !.invalid = @ \cup {tx}]

\* the match on the result of one push
DrainStep(acc, tx, oc) ==
    LET result == PushResult(acc.txs, tx, oc)
    IN CASE result \in GasLimitOutcomes ->
              LET over == result \in {"GasLimitOver", "GasLimitOverFull"}
                  full == result \in {"GasLimitFull", "GasLimitOverFull"}
                  inv == IF over THEN acc.invalid \cup {tx} ELSE acc.invalid
              IN IF full
                 THEN [acc EXCEPT !.invalid = inv, !.stopped = TRUE]
                 ELSE [acc EXCEPT !.invalid = inv, !.skipped = acc.skipped + 1,
                                  !.stopped = acc.skipped + 1 > MaxSkipped]
         [] result = "InvalidNonce" -> acc
         [] result = "AlreadyImported" -> acc
         [] result = "NotAllowed" -> [acc EXCEPT !.not_allowed = @ \cup {tx}]
         [] result = "Ok" -> [acc EXCEPT !.txs = Append(@, tx), !.tx_count = @ + 1]
         [] OTHER -> [acc EXCEPT !.invalid = @ \cup {tx}]

RECURSIVE Drain(_, _, _, _)
\* the loop over the pool's pending transactions
Drain(pending, i, acc, oc) ==
    IF i > Len(pending) \/ acc.stopped THEN acc
    ELSE Drain(pending, i + 1, DrainStep(acc, pending[i], oc), oc)

\* an open block that ignores the author set in the authoring parameters
OpenBlockDefaultAuthor(m) ==
    [number |-> m.chain.best_number + 1, parent |-> m.chain.best_hash, txs |-> <<>>,
     author |-> 0, gas_range_target |-> m.params.gas_range_target,
     extra_data |-> m.params.extra_data]

\* an open block that takes the number of the best block
OpenBlockAtBestNumber(m) ==
    [number |-> m.chain.best_number, parent |-> m.chain.best_hash, txs |-> <<>>,
     author |-> m.params.author, gas_range_target |-> m.params.gas_range_target,
     extra_data |-> m.params.extra_data]

\* chain.prepare_open_block with the authoring parameters
PrepareOpenBlock(m) ==
    [number |-> m.chain.best_number + 1, parent |-> m.chain.best_hash, txs |-> <<>>,
     author |-> m.params.author, gas_range_target |-> m.params.gas_range_target,
     extra_data |-> m.params.extra_data]

\* a pop_if that takes the newest candidate whatever its parent
AnyParent(b, best_hash) == TRUE

\* the predicate prepare_block hands to pop_if
SameParent(b, best_hash) == b.parent = best_hash

\* a close that leaves the transactions that were not allowed in the pool
CloseKeepingNotAllowed(m4, open_block, acc, last_work_hash) ==
    Ret([PoolCall(PoolCall(m4, "remove"), "remove")
            EXCEPT !.pool = PoolRemove(m4.pool, acc.invalid),
                   !.trace = Append(@, [k |-> "assembled", number |-> open_block.number])],
        <<[open_block EXCEPT !.txs = acc.txs], last_work_hash>>)

\* the end of prepare_block: close the block, drop from the pool what the loop
\* found invalid or not allowed; returns <<closed block, original_work_hash>>
prepare_block_close(m4, open_block, acc, last_work_hash) ==
    Ret([PoolCall(PoolCall(m4, "remove"), "remove")
            EXCEPT !.pool = PoolRemove(PoolRemove(m4.pool, acc.invalid), acc.not_allowed),
                   !.trace = Append(@, [k |-> "assembled", number |-> open_block.number])],
        <<[open_block EXCEPT !.txs = acc.txs], last_work_hash>>)

\* the loop of prepare_block over the pool's pending transactions
prepare_block_fill(m4, open_block, last_work_hash, oc) ==
    prepare_block_close(m4, open_block,
                        Drain(PoolPending(m4.pool), 1,
                              [txs |-> open_block.txs, invalid |-> {}, not_allowed |-> {},
                               tx_count |-> 0, skipped |-> 0, stopped |-> FALSE], oc),
                        last_work_hash)

\* reopen the popped candidate, or open a new block on the best block
prepare_block_open(m1, popped, last_work_hash, oc) ==
    LET reopen == IsSome(popped.ret)
        m2 == [m1 EXCEPT !.sealing.queue = popped.q]
        m3 == SealingUnlock(ChainCall(m2, IF reopen THEN "reopen_block"
                                                    ELSE "prepare_open_block"))
    IN prepare_block_fill(PoolCall(EngineCall(m3, "params"), "pending"),
                          IF reopen THEN popped.ret[1] ELSE PrepareOpenBlock(m2),
                          last_work_hash, oc)

\* prepare_block under the sealing lock, chain_info read
prepare_block_locked(m1, oc) ==
    LET last == QueuePeekLast(m1.sealing.queue)
        best_hash == m1.chain.best_hash
    IN prepare_block_open(
          m1,
          QueuePopIf(m1.sealing.queue,
                     { b \in Range(m1.sealing.queue.items) : SameParent(b, best_hash) }),
          IF IsSome(last) THEN Some(Hash(last[1])) ELSE None,
          oc)

\* returns <<closed block, original_work_hash>> in ret
prepare_block(m, oc) == prepare_block_locked(SealingLock(ChainCall(m, "chain_info")), oc)

---------------------------------------------------------------------------
(* Miner::seal_and_import_block_internally *)

\* e.parent_known: chain.block_header finds the parent; e.seal: what generate_seal
\* answers; e.seal_ok: the seal fits the block; e.import_ok: the chain accepted it
\* a Proposal arm that imports the sealed block instead of broadcasting it
ProposalImported(m3, block, e) ==
    LET m4 == [m3 EXCEPT
                 !.sealing.next_mandatory_reseal = m3.now + m3.options.reseal_max_period,
                 !.sealing.queue = QueueUseLastRef(QueuePush(@, block)),
                 !.trace = Append(@, [k |-> "push", hash |-> Hash(block)])]
    IN IF e.seal_ok
       THEN Ret(SealingUnlock([ChainCall(m4, "import_sealed_block")
                                  EXCEPT !.chain = ImportSealedBlock(@, block)]), TRUE)
       ELSE Ret(SealingUnlock(m4), FALSE)

\* the arm Seal::Proposal: keep the block in the history and broadcast it
seal_proposal(m3, block, e) ==
    LET m4 == [m3 EXCEPT
                 !.sealing.next_mandatory_reseal = m3.now + m3.options.reseal_max_period,
                 !.sealing.queue = QueueUseLastRef(QueuePush(@, block)),
                 !.trace = Append(@, [k |-> "push", hash |-> Hash(block)])]
    IN IF e.seal_ok
       THEN Ret(SealingUnlock(ChainCall(m4, "broadcast_proposal_block")), TRUE)
       ELSE Ret(SealingUnlock(m4), FALSE)

\* a Regular seal handled as a Proposal: the sealed block is kept as work
RegularKeptAsWork(m3, block, e) == seal_proposal(m3, block, e)

\* the arm Seal::Regular: seal the block and import it
seal_regular(m3, block, e) ==
    LET m4 == [m3 EXCEPT
                 !.sealing.next_mandatory_reseal = m3.now + m3.options.reseal_max_period]
    IN IF e.seal_ok
       THEN IF e.import_ok
            THEN Ret(SealingUnlock([ChainCall(m4, "import_sealed_block")
                                       EXCEPT !.chain = ImportSealedBlock(@, block)]), TRUE)
            ELSE Ret(SealingUnlock(ChainCall(m4, "import_sealed_block")), FALSE)
       ELSE Ret(SealingUnlock(m4), FALSE)

\* the match on engine.generate_seal
seal_generated(m3, block, e) ==
    CASE e.seal = "Proposal" -> seal_proposal(m3, block, e)
      [] e.seal = "Regular" -> seal_regular(m3, block, e)
      [] OTHER -> Ret(SealingUnlock(m3), FALSE)

\* a sealing step that does not look at the deadline
SealWithoutGate(m, block, e) ==
    IF ~e.parent_known
    THEN Ret(SealingUnlock(ChainCall(SealingLock(m), "block_header")), FALSE)
    ELSE seal_generated(EngineCall(ChainCall(SealingLock(m), "block_header"), "generate_seal"),
                        block, e)

seal_and_import_block_internally(m, block, e) ==
    LET m1 == SealingLock(m)
    IN IF Len(block.txs) = 0 /\ ~forced_sealing(m1) /\ m1.now <= m1.sealing.next_mandatory_reseal
       THEN Ret(SealingUnlock(m1), FALSE)
       ELSE IF ~e.parent_known THEN Ret(SealingUnlock(ChainCall(m1, "block_header")), FALSE)
            ELSE seal_generated(EngineCall(ChainCall(m1, "block_header"), "generate_seal"),
                                block, e)

---------------------------------------------------------------------------
(* Miner::prepare_work *)

\* notifications that reach only the listener registered first
NotifyFirstOnly(m, i, work) ==
    IF m.listeners = 0 THEN m
    ELSE Ev(m, [k |-> "notify", listener |-> 1, work |-> work])

RECURSIVE Notify(_, _, _)
\* one notification per listener, in registration order
Notify(m, i, work) ==
    IF i > m.listeners THEN m
    ELSE Notify(Ev(m, [k |-> "notify", listener |-> i, work |-> work]), i + 1, work)

\* a prepare_work that pushes whatever the newest candidate is
PushUnconditionally(m1, block, block_hash, original_work_hash) ==
    LET is_new == original_work_hash = None \/ original_work_hash[1] # block_hash
        pushed == QueuePush(m1.sealing.queue, block)
        m2 == [m1 EXCEPT !.sealing.queue =
                             IF is_new /\ m1.listeners > 0 THEN QueueUseLastRef(pushed)
                             ELSE pushed,
                         !.trace = Append(@, [k |-> "push", hash |-> block_hash])]
    IN Ret(IF is_new THEN Notify(SealingUnlock(m2), 1, <<block_hash, block.number>>)
           ELSE SealingUnlock(m2), None)

\* prepare_work under the sealing lock
prepare_work_locked(m1, block, block_hash, original_work_hash) ==
    LET last == QueuePeekLast(m1.sealing.queue)
        last_work_hash == IF IsSome(last) THEN Some(Hash(last[1])) ELSE None
        push == last_work_hash = None \/ last_work_hash[1] # block_hash
        is_new == push /\ (original_work_hash = None \/ original_work_hash[1] # block_hash)
        pushed == QueuePush(m1.sealing.queue, block)
        m2 == IF push
              THEN [m1 EXCEPT !.sealing.queue =
                                  IF is_new /\ m1.listeners > 0 THEN QueueUseLastRef(pushed)
                                  ELSE pushed,
                              !.trace = Append(@, [k |-> "push", hash |-> block_hash])]
              ELSE m1
    IN Ret(IF is_new THEN Notify(SealingUnlock(m2), 1, <<block_hash, block.number>>)
           ELSE SealingUnlock(m2), None)

prepare_work(m, block, original_work_hash) ==
    prepare_work_locked(SealingLock(m), block, Hash(block), original_work_hash)

---------------------------------------------------------------------------
(* Miner::prepare_work_sealing *)

\* prepare_work on what prepare_block returned
prepare_work_of(pb) == prepare_work(pb, pb.ret[1], pb.ret[2])

\* an end of prepare_work_sealing that records the parent of the best block
FinishRecordingParent(m4, prepare_new) ==
    Ret(SealingUnlock([m4 EXCEPT !.sealing.sealing_block_last_request =
                                     IF m4.chain.best_number > 0
                                     THEN m4.chain.best_number - 1 ELSE 0]),
        prepare_new)

\* an end of prepare_work_sealing that does not record the request
FinishWithoutRequest(m4, prepare_new) == Ret(SealingUnlock(m4), prepare_new)

\* the end of prepare_work_sealing: record the best block as the last request
prepare_work_sealing_finish(m4, prepare_new) ==
    Ret(SealingUnlock([m4 EXCEPT !.sealing.sealing_block_last_request = m4.chain.best_number]),
        prepare_new)

\* prepare_work_sealing under the sealing lock
prepare_work_sealing_locked(m1, oc) ==
    LET have_work == IsSome(QueuePeekLast(m1.sealing.queue))
        prepare_new == ~have_work
    IN prepare_work_sealing_finish(
          SealingLock(ChainCall(
              IF prepare_new
              THEN prepare_work_of(prepare_block(
                       SealingUnlock([m1 EXCEPT !.sealing.enabled = TRUE]), oc))
              ELSE SealingUnlock(m1),
              "chain_info")),
          prepare_new)

prepare_work_sealing(m, oc) == prepare_work_sealing_locked(SealingLock(m), oc)

---------------------------------------------------------------------------
(* MinerService::update_sealing *)

\* update_sealing without the guard on the first block
NoForkGuard(m, block) == FALSE

\* refuse to seal the first block of a chain whose spec holds bug-fix hard forks
FirstBlockForkGuard(m, block) == block.number = 1 /\ m.engine.contains_bugfix_hard_fork

\* the match on engine.seals_internally that ends update_sealing
update_sealing_seal(m3, block, original_work_hash, e) ==
    CASE SealsInternally(m3) = Some(TRUE) ->
              Ret(seal_and_import_block_internally(m3, block, e), None)
      [] SealsInternally(m3) = Some(FALSE) -> Ret(m3, None)
      [] OTHER -> prepare_work(m3, block, original_work_hash)

\* update_sealing once the block is prepared and the engine params were read
update_sealing_prepared(m2, block, original_work_hash, e) ==
    IF FirstBlockForkGuard(m2, block) THEN Ret(m2, None)
    ELSE update_sealing_seal(EngineCall(m2, "seals_internally"), block, original_work_hash, e)

\* update_sealing on what prepare_block returned
update_sealing_block(pb, e) ==
    update_sealing_prepared(EngineCall(pb, "params"), pb.ret[1], pb.ret[2], e)

\* update_sealing on what requires_reseal returned
update_sealing_checked(rr, e) ==
    IF ~rr.ret THEN Ret(rr, None)
    ELSE update_sealing_block(prepare_block(rr, e.oc), e)

update_sealing(m, e) ==
    LET m1 == ChainCall(Ev(m, [k |-> "update_sealing"]), "chain_info")
    IN update_sealing_checked(requires_reseal(m1, m1.chain.best_number), e)

---------------------------------------------------------------------------
(* MinerService::submit_seal *)

\* submit_seal that clones whatever the option says
SubmitAlwaysClone(m) == "Clone"

\* the GetAction submit_seal hands to get_used_if
SubmitGetAction(m) == IF m.options.enable_resubmission THEN "Clone" ELSE "Take"

\* submit_seal on what get_used_if returned
\* e.seal_valid: try_seal accepts the seal; e.import_ok: the chain accepted the block
submit_seal_got(m1, got, e) ==
    LET m2 == [m1 EXCEPT !.sealing.queue = got.q]
        m3 == SealingUnlock(EngineCall(m2, "try_seal"))
        m4 == ChainCall(m3, "import_sealed_block")
    IN IF ~IsSome(got.ret) THEN Ret(SealingUnlock(m2), "PowHashInvalid")
       ELSE IF ~e.seal_valid THEN Ret(m3, "PowInvalid")
            ELSE IF e.import_ok
                 THEN Ret([m4 EXCEPT !.chain = ImportSealedBlock(@, got.ret[1])], "Ok")
                 ELSE Ret(m4, "ImportError")

submit_seal(m, block_hash, e) ==
    LET m1 == SealingLock(m)
    IN submit_seal_got(m1,
                       QueueGetUsedIf(m1.sealing.queue, SubmitGetAction(m1),
                                      { b \in Range(m1.sealing.queue.items) :
                                            Hash(b) = block_hash }),
                       e)

---------------------------------------------------------------------------
(* MinerService::chain_new_blocks *)

\* a condition that looks at the enacted blocks only
EnactedOnly(m, imported, enacted) == Len(enacted) > 0

\* whether chain_new_blocks goes on to update_sealing
ChainNewBlocksReseals(m, imported, enacted) ==
    Len(enacted) > 0 \/ (Len(imported) > 0 /\ m.options.reseal_on_uncle)

\* the end of chain_new_blocks, the pool culled
chain_new_blocks_culled(m3, imported, enacted, e) ==
    IF ChainNewBlocksReseals(m3, imported, enacted)
    THEN update_sealing(m3, e)
    ELSE Ret(m3, None)

\* retracted: the transactions of the retracted blocks
chain_new_blocks(m, imported, enacted, retracted, e) ==
    LET m1 == Ev(ChainCall(m, "best_block_header"), [k |-> "recalibrate"])
        m2 == IF retracted = {} THEN m1
              ELSE [PoolCall(ChainCall(m1, "block"), "import_retracted")
                       EXCEPT !.pool.txs = @ \cup (retracted \ m.chain.mined)]
    IN chain_new_blocks_culled([PoolCall(m2, "cull") EXCEPT !.pool = PoolCull(@, m.chain)],
                               imported, enacted, e)

---------------------------------------------------------------------------
(* MinerService::import_external_transactions, import_own_transaction *)

\* a condition that asks for an import that succeeded
SomeImportSucceeded(m, results) ==
    (\E i \in 1..Len(results) : results[i]) /\ m.options.reseal_on_external_tx

\* the condition under which import_external_transactions reseals
ExternalImportReseals(m, results) ==
    Len(results) > 0 /\ m.options.reseal_on_external_tx

RECURSIVE ImportAll(_, _, _, _)
ImportAll(p, transactions, results, i) ==
    IF i > Len(transactions) THEN p
    ELSE ImportAll(PoolImport(p, transactions[i], FALSE, results[i]), transactions, results, i + 1)

\* import_external_transactions, the batch imported into the pool
\* results[i]: whether the pool accepted transactions[i]
import_external_transactions_imported(m1, results, e) ==
    LET m2 == SealingUnlock(SealingLock(m1))
    IN IF ExternalImportReseals(m1, results)
       THEN IF reseal_allowed(m2) THEN Ret(update_sealing(m2, e), results)
            ELSE Ret(m2, results)
       ELSE Ret(m1, results)

import_external_transactions(m, transactions, results, e) ==
    import_external_transactions_imported(
        [PoolCall(m, "import") EXCEPT !.pool = ImportAll(@, transactions, results, 1)],
        results, e)

\* import_own_transaction on what prepare_work_sealing returned
import_own_transaction_prepared(pws, imported, e) ==
    IF ~pws.ret THEN update_sealing(pws, e) ELSE pws

\* import_own_transaction when resealing is allowed
import_own_transaction_reseal(m3, imported, e) ==
    IF SealsInternally(m3) = Some(TRUE)
    THEN update_sealing(m3, e)
    ELSE import_own_transaction_prepared(prepare_work_sealing(m3, e.oc), imported, e)

\* import_own_transaction, the transaction imported into the pool
import_own_transaction_imported(m1, imported, e) ==
    LET m2 == SealingUnlock(SealingLock(m1))
    IN IF imported /\ m1.options.reseal_on_own_tx
       THEN IF reseal_allowed(m2)
            THEN Ret(import_own_transaction_reseal(EngineCall(m2, "seals_internally"),
                                                   imported, e), imported)
            ELSE Ret(m2, imported)
       ELSE Ret(m1, imported)

import_own_transaction(m, pending, imported, e) ==
    import_own_transaction_imported(
        [PoolCall(m, "import") EXCEPT !.pool = PoolImport(@, pending, TRUE, imported)],
        imported, e)

---------------------------------------------------------------------------
(* Miner::add_work_listener, Miner::clear, the authoring parameters *)

add_work_listener(m) ==
    LET m1 == SealingUnlock([SealingLock(m) EXCEPT !.sealing.enabled = TRUE])
    IN Ret([m1 EXCEPT !.listeners = @ + 1], None)

clear(m) ==
    Ret(SealingUnlock([SealingLock(m) EXCEPT !.sealing.queue = QueueReset(@)]), None)

set_gas_range_target(m, gas_range_target) ==
    Ret([m EXCEPT !.params.gas_range_target = gas_range_target], None)

set_extra_data(m, extra_data) ==
    Ret([m EXCEPT !.params.extra_data = extra_data], None)

\* sign_ok: the account provider signs the test message with the password
set_author(m, address, sign_ok) ==
    LET m1 == EngineCall([m EXCEPT !.params.author = address], "seals_internally")
    IN IF IsSome(SealsInternally(m1))
       THEN IF m1.accounts
            THEN IF ~sign_ok THEN Ret(m1, "SignError")
                 ELSE LET m2 == SealingUnlock([SealingLock(m1) EXCEPT !.sealing.enabled = TRUE])
                          m3 == EngineCall(m2, "set_signer")
                      IN Ret([m3 EXCEPT !.engine.signer = Some(address),
                                        !.engine.seals = Some(TRUE)], "Ok")
            ELSE Ret(m1, "NotFound")
       ELSE Ret(m1, "Ok")

---------------------------------------------------------------------------
(* Read queries *)

\* a comparison that also accepts a candidate of the latest block's number
NotOlderThan(b, latest_block_number) == b.number >= latest_block_number

\* the comparison from_pending_block makes between the newest candidate and
\* the latest block number it is given
NewerThan(b, latest_block_number) == b.number > latest_block_number

\* Miner::from_pending_block: Some(newest candidate) when map_block is used,
\* None when from_chain is
from_pending_block(m, latest_block_number) ==
    LET last == QueuePeekLast(m.sealing.queue)
    IN IF IsSome(last) /\ NewerThan(last[1], latest_block_number) THEN last ELSE None

\* the receipts of a closed block, one per transaction, with cumulative gas
Receipts(b) == [i \in 1..Len(b.txs) |-> [gas_used |-> i]]

pending_block(m, latest_block_number) == from_pending_block(m, latest_block_number)

pending_block_header(m, latest_block_number) ==
    LET b == from_pending_block(m, latest_block_number)
    IN IF IsSome(b) THEN Some(Hash(b[1])) ELSE None

pending_state(m, latest_block_number) ==
    LET b == from_pending_block(m, latest_block_number)
    IN IF IsSome(b) THEN Some(Range(b[1].txs)) ELSE None

ready_transactions(m) ==
    IF m.options.pending_set = "AlwaysQueue" THEN PoolPending(m.pool)
    ELSE LET b == from_pending_block(m, m.chain.best_number)
         IN IF IsSome(b) THEN b[1].txs ELSE <<>>

transaction(m, best_block, hash) ==
    IF m.options.pending_set = "AlwaysQueue"
    THEN IF hash \in m.pool.txs THEN Some(hash) ELSE None
    ELSE LET b == from_pending_block(m, best_block)
         IN IF IsSome(b) /\ hash \in Range(b[1].txs) THEN Some(hash) ELSE None

pending_transactions(m, best_block) ==
    LET b == from_pending_block(m, best_block)
    IN IF IsSome(b) THEN Some(b[1].txs) ELSE None

pending_receipt(m, best_block, hash) ==
    LET b == from_pending_block(m, best_block)
    IN IF ~IsSome(b) THEN None
       ELSE LET txs == b[1].txs
                pos == { i \in 1..Len(txs) : txs[i] = hash }
            IN IF pos = {} THEN None
               ELSE LET index == CHOOSE i \in pos : \A j \in pos : i <= j
                        receipts == Receipts(b[1])
                        prev_gas == IF index = 1 THEN 0 ELSE receipts[index - 1].gas_used
                    IN Some([transaction_hash |-> hash, transaction_index |-> index - 1,
                             cumulative_gas_used |-> receipts[index].gas_used,
                             gas_used |-> receipts[index].gas_used - prev_gas])

\* a map from transaction hash to receipt, as a set of pairs
pending_receipts(m, best_block) ==
    LET b == from_pending_block(m, best_block)
    IN IF IsSome(b)
       THEN Some({ <<b[1].txs[i], Receipts(b[1])[i]>> : i \in 1..Len(b[1].txs) })
       ELSE None

is_currently_sealing(m) == QueueIsInUse(m.sealing.queue)

can_produce_work_package(m) == ~IsSome(SealsInternally(m))

\* map_pending_block on what prepare_work_sealing returned
map_pending_block_prepared(m1) ==
    LET m2 == ChainCall(m1, "chain_info")
        b == from_pending_block(m2, m2.chain.best_number)
    IN Ret(m2, IF IsSome(b) THEN Some(Hash(b[1])) ELSE None)

\* MinerService::map_pending_block with f the block's hash
map_pending_block(m, oc) == map_pending_block_prepared(prepare_work_sealing(m, oc))

---------------------------------------------------------------------------
(* Miner::new *)

\* a history one entry larger than the option asks for
WorkQueueCapacityOffByOne(opts) == opts.work_queue_size + 1

\* the capacity Miner::new gives the work history
WorkQueueCapacity(opts) == opts.work_queue_size

\* whether a new miner starts with sealing enabled
InitiallyEnabled(opts, eng) == opts.force_sealing \/ IsSome(eng.seals)

new(opts, eng) ==
    [queue |-> UsingQueueNew(WorkQueueCapacity(opts)),
     enabled |-> InitiallyEnabled(opts, eng),
     next_allowed_reseal |-> 0,
     next_mandatory_reseal |-> 0 + opts.reseal_max_period,
     sealing_block_last_request |-> 0]

\* AuthoringParams::default
DefaultParams == [author |-> 0, gas_range_target |-> 0, extra_data |-> 0]

MinerOptions ==
    [force_sealing : BOOLEAN, reseal_on_external_tx : BOOLEAN, reseal_on_own_tx : BOOLEAN,
     reseal_on_uncle : BOOLEAN, pending_set : {"AlwaysQueue", "AlwaysSealing"},
     enable_resubmission : BOOLEAN, work_queue_size : {work_queue_size},
     reseal_min_period : {reseal_min_period}, reseal_max_period : {reseal_max_period}]

Engines ==
    [seals : {None, Some(TRUE), Some(FALSE)}, contains_bugfix_hard_fork : BOOLEAN,
     signer : {None}]

InitWith(opts, eng, acc) ==
    /\ options = opts
    /\ engine = eng
    /\ accounts = acc
    /\ sealing = new(opts, eng)
    /\ params = DefaultParams
    /\ listeners = 0
    /\ pool = [txs |-> {}, local |-> {}]
    /\ chain = [best_number |-> 0, best_hash |-> 0, heads |-> 0, mined |-> {}]
    /\ now = 0
    /\ out = [op |-> "new", ret |-> None]

Init == \E opts \in MinerOptions, eng \in Engines, acc \in BOOLEAN : InitWith(opts, eng, acc)

---------------------------------------------------------------------------
(* The environment's choices *)

\* what the state may answer when a pooled transaction is pushed
MainOutcomes == {"Ok", "GasLimit", "ExecFailed"}

NoEngine == [parent_known |-> TRUE, seal |-> "None", seal_ok |-> TRUE, import_ok |-> TRUE]

\* the distinguishable answers of the chain client and the engine on the internal path
EngineChoices(m) ==
    IF SealsInternally(m) = Some(TRUE)
    THEN { NoEngine,
           [NoEngine EXCEPT !.parent_known = FALSE],
           [NoEngine EXCEPT !.seal = "Proposal"],
           [NoEngine EXCEPT !.seal = "Proposal", !.seal_ok = FALSE],
           [NoEngine EXCEPT !.seal = "Regular"],
           [NoEngine EXCEPT !.seal = "Regular", !.seal_ok = FALSE],
           [NoEngine EXCEPT !.seal = "Regular", !.import_ok = FALSE] }
    ELSE { NoEngine }

Envs(m, txs) ==
    { [oc |-> oc, parent_known |-> e.parent_known, seal |-> e.seal, seal_ok |-> e.seal_ok,
       import_ok |-> e.import_ok] : oc \in [txs -> MainOutcomes], e \in EngineChoices(m) }

\* the state after a handler returned r
Apply(r, op) ==
    /\ r.chain.heads <= MaxHeads
    /\ r.chain.best_number <= MaxBest
    /\ sealing' = r.sealing
    /\ params' = r.params
    /\ listeners' = r.listeners
    /\ pool' = r.pool
    /\ chain' = r.chain
    /\ engine' = r.engine
    /\ now' = r.now
    /\ out' = [op |-> op, ret |-> r.ret]
    /\ UNCHANGED <<options, accounts>>

---------------------------------------------------------------------------
(* Actions: one per entry point, and the environment's own steps *)

Outcomes(txs) == [txs -> MainOutcomes]

\* a transaction the pool or the chain already holds is refused by the pool
Importable(tx) == tx \notin pool.txs /\ tx \notin chain.mined

UpdateSealing ==
    \E e \in Envs(Miner, pool.txs) : Apply(update_sealing(Miner, e), "update_sealing")

PrepareWorkSealing ==
    \E oc \in Outcomes(pool.txs) :
        Apply(prepare_work_sealing(Miner, oc), "prepare_work_sealing")

MapPendingBlock ==
    \E oc \in Outcomes(pool.txs) : Apply(map_pending_block(Miner, oc), "map_pending_block")

\* the hashes a submitter may send: those of the candidates in the history, and
\* one that no candidate has
SubmittableHashes ==
    { Hash(sealing.queue.items[i]) : i \in 1..Len(sealing.queue.items) } \cup {None}

\* what try_seal and the chain client may answer to a submitted seal
SubmitAnswers ==
    { [seal_valid |-> TRUE, import_ok |-> TRUE], [seal_valid |-> FALSE, import_ok |-> TRUE],
      [seal_valid |-> TRUE, import_ok |-> FALSE] }

SubmitSeal ==
    \E h \in SubmittableHashes, e \in SubmitAnswers :
        Apply(submit_seal(Miner, h, e), "submit_seal")

Batches == {<<>>} \cup { <<t>> : t \in Txs } \cup { p \in Txs \X Txs : p[1] < p[2] }

ImportExternalTransactions ==
    \E transactions \in Batches :
      \E results \in [1..Len(transactions) -> BOOLEAN] :
        /\ \A i \in 1..Len(transactions) : results[i] => Importable(transactions[i])
        /\ \E e \in Envs(Miner, pool.txs \cup Range(transactions)) :
              Apply(import_external_transactions(Miner, transactions, results, e),
                    "import_external_transactions")

ImportOwnTransaction ==
    \E tx \in Txs, imported \in BOOLEAN :
        /\ imported => Importable(tx)
        /\ \E e \in Envs(Miner, pool.txs \cup {tx}) :
              Apply(import_own_transaction(Miner, tx, imported, e), "import_own_transaction")

\* what chain_new_blocks is told: whether blocks were imported, whether blocks
\* were enacted, and the transactions of the retracted blocks
ChainNewBlocks ==
    \E imported \in {<<>>, <<chain.best_hash>>}, enacted \in {<<>>, <<chain.best_hash>>},
       retracted \in {{}} \cup { {t} : t \in Txs \ chain.mined } :
        \E e \in Envs(Miner, pool.txs \cup retracted) :
            Apply(chain_new_blocks(Miner, imported, enacted, retracted, e), "chain_new_blocks")

AddWorkListener ==
    /\ listeners < MaxListeners
    /\ Apply(add_work_listener(Miner), "add_work_listener")

Clear == Apply(clear(Miner), "clear")

SetAuthor ==
    \E address \in 0..MaxParam, sign_ok \in BOOLEAN :
        Apply(set_author(Miner, address, sign_ok), "set_author")

SetGasRangeTarget ==
    \E v \in 0..MaxParam : Apply(set_gas_range_target(Miner, v), "set_gas_range_target")

SetExtraData ==
    \E v \in 0..MaxParam : Apply(set_extra_data(Miner, v), "set_extra_data")

\* the chain grows by n blocks; the miner is told later, by chain_new_blocks
AddBlocks ==
    \E n \in {1, SEALING_TIMEOUT_IN_BLOCKS + 1} :
        Apply([Miner EXCEPT !.chain.best_number = chain.best_number + n,
                            !.chain.best_hash = chain.heads + 1,
                            !.chain.heads = chain.heads + 1],
              "add_blocks")

\* the chain replaces its head by a block of another branch, k blocks lower,
\* retracting the transactions of the blocks it leaves
Reorg ==
    \E k \in {0, 1} :
        /\ chain.best_number - k >= 1
        /\ Apply([Miner EXCEPT !.chain.best_number = chain.best_number - k,
                               !.chain.best_hash = chain.heads + 1,
                               !.chain.heads = chain.heads + 1,
                               !.chain.mined = {}],
                 "reorg")

Tick ==
    /\ now < MaxTime
    /\ Apply([Miner EXCEPT !.now = now + 1], "tick")

Next ==
    \/ UpdateSealing
    \/ PrepareWorkSealing
    \/ MapPendingBlock
    \/ SubmitSeal
    \/ ImportExternalTransactions
    \/ ImportOwnTransaction
    \/ ChainNewBlocks
    \/ AddWorkListener
    \/ Clear
    \/ SetAuthor
    \/ SetGasRangeTarget
    \/ SetExtraData
    \/ AddBlocks
    \/ Reorg
    \/ Tick

\* the whole miner, under every choice of options and engine
Spec == Init /\ [][Next]_vars

\* the entry points that drive sealing, and the environment, for a miner whose
\* listeners and authoring parameters stay as constructed
NextSealing ==
    \/ UpdateSealing
    \/ PrepareWorkSealing
    \/ MapPendingBlock
    \/ SubmitSeal
    \/ ImportExternalTransactions
    \/ ImportOwnTransaction
    \/ ChainNewBlocks
    \/ Clear
    \/ AddBlocks
    \/ Tick

\* the options of the miner the tests build (tests::miner), with either
\* resubmission policy
TestOptions(opts) ==
    /\ ~opts.force_sealing /\ ~opts.reseal_on_external_tx /\ opts.reseal_on_own_tx
    /\ ~opts.reseal_on_uncle /\ opts.pending_set = "AlwaysSealing"

\* Spec::new_test: an engine that takes external work
ExternalEngine == [seals |-> None, contains_bugfix_hard_fork |-> FALSE, signer |-> None]

InitExternal ==
    \E opts \in MinerOptions : TestOptions(opts) /\ InitWith(opts, ExternalEngine, FALSE)

SpecExternal == InitExternal /\ [][NextSealing]_vars

\* the same miner on a chain whose engine params carry a bug-fix hard fork
InitForkGuard ==
    \E opts \in MinerOptions :
        /\ TestOptions(opts) /\ opts.enable_resubmission
        /\ InitWith(opts, [ExternalEngine EXCEPT !.contains_bugfix_hard_fork = TRUE], FALSE)

SpecForkGuard == InitForkGuard /\ [][NextSealing]_vars

\* MinerOptions::default, as Miner::new_for_tests uses it
DefaultOptions(opts) ==
    /\ ~opts.force_sealing /\ ~opts.reseal_on_external_tx /\ opts.reseal_on_own_tx
    /\ ~opts.reseal_on_uncle /\ opts.pending_set = "AlwaysQueue" /\ opts.enable_resubmission

\* Spec::new_instant: an engine that seals internally
InternalEngine == [seals |-> Some(TRUE), contains_bugfix_hard_fork |-> FALSE, signer |-> None]

InitInternal ==
    \E opts \in MinerOptions : DefaultOptions(opts) /\ InitWith(opts, InternalEngine, FALSE)

SpecInternal == InitInternal /\ [][NextSealing]_vars

---------------------------------------------------------------------------
(* Properties *)

Items == sealing.queue.items

Hashes(q) == { Hash(q.items[i]) : i \in 1..Len(q.items) }

\* whether a handler's trace holds an event of kind k
HasEvent(r, k) == \E i \in 1..Len(r.trace) : r.trace[i].k = k

\* whether a handler's trace holds a call f of the chain client
HasChainCall(r, f) == \E i \in 1..Len(r.trace) : r.trace[i] = [k |-> "chain", f |-> f]

\* sealing is not forced, the pool holds no local transaction and the engine
\* takes external work
Idle == ~forced_sealing(Miner) /\ pool.local = {} /\ ~IsSome(SealsInternally(Miner))

\* C1: the work history never holds more than work_queue_size candidates.
C1_WorkHistoryBound == Len(Items) <= options.work_queue_size

\* a full history on which update_sealing pushes a new candidate, dropping the oldest
C1_Witness ==
    /\ Len(Items) = options.work_queue_size
    /\ \E e \in Envs(Miner, pool.txs) :
          LET r == update_sealing(Miner, e)
              after == r.sealing.queue.items
          IN /\ HasEvent(r, "push")
             /\ Len(after) = options.work_queue_size
             /\ SubSeq(after, 1, Len(after) - 1) = Tail(Items)

\* C2: while enabled is false, requires_reseal returns false and update_sealing
\* assembles no block and leaves the work history as it is.
C2_DisabledTriggersAreNoOps ==
    ~sealing.enabled =>
        /\ requires_reseal(Miner, chain.best_number).ret = FALSE
        /\ \A e \in Envs(Miner, pool.txs) :
              LET r == update_sealing(Miner, e)
              IN ~HasEvent(r, "assembled") /\ r.sealing.queue = sealing.queue

\* C3: on a miner with no forced sealing and an external-work engine,
\* requires_reseal(1) is false at construction, and true once an external
\* transaction is in the pool and prepare_work_sealing has returned true.
C3_ResealRequiredAfterWorkRequest ==
    /\ out.op = "new" => requires_reseal(Miner, 1).ret = FALSE
    /\ (/\ out.op = "prepare_work_sealing" /\ out.ret = TRUE
        /\ pool.txs # {} /\ Idle)
       => requires_reseal(Miner, 1).ret = TRUE

\* C4: when sealing is idle and the best block is more than
\* SEALING_TIMEOUT_IN_BLOCKS above the last work request, the reseal check
\* disables sealing and empties the work history; while it is at most that far
\* above, an enabled sealer stays enabled.
C4_SleepAfterIdle ==
    LET r == requires_reseal(Miner, chain.best_number)
        last_request == sealing.sealing_block_last_request
    IN /\ (Idle /\ chain.best_number > last_request + SEALING_TIMEOUT_IN_BLOCKS)
          => (~r.sealing.enabled /\ r.sealing.queue.items = <<>>)
       /\ (Idle /\ sealing.enabled /\ chain.best_number <= last_request + SEALING_TIMEOUT_IN_BLOCKS)
          => r.sealing.enabled

\* C5: with an engine that seals internally, an update_sealing that follows a
\* successful import of a transaction seals and imports one block: the best
\* block number grows by one, and pending_block(0) is None afterwards.
C5_InternalSealingImportsBlock ==
    [][(/\ SealsInternally(Miner) = Some(TRUE)
        /\ out.op \in {"import_own_transaction", "import_external_transactions"}
        /\ pool.txs # {}
        /\ out'.op = "update_sealing")
       => (/\ chain'.best_number = chain.best_number + 1
           /\ pending_block([sealing |-> sealing'], 0) = None)]_vars

\* a valid seal that the chain accepts
ValidSeal == [seal_valid |-> TRUE, import_ok |-> TRUE]

\* C6: for a candidate in the work history, two successive submit_seal calls
\* with valid seals both succeed and leave the history as it is when
\* enable_resubmission is true; when it is false the first succeeds and removes
\* the candidate, and the second fails with PowHashInvalid.
C6_ResubmissionPolicy ==
    \A i \in 1..Len(Items) :
        LET h == Hash(Items[i])
            first == submit_seal(Miner, h, ValidSeal)
            second == submit_seal(first, h, ValidSeal)
        IN IF options.enable_resubmission
           THEN /\ first.ret = "Ok" /\ second.ret = "Ok"
                /\ first.sealing.queue.items = Items
                /\ second.sealing.queue.items = Items
           ELSE /\ first.ret = "Ok"
                /\ h \notin Hashes(first.sealing.queue)
                /\ second.ret = "PowHashInvalid"

\* resubmission is off, a candidate is in the history, its first submission
\* succeeds and its second is refused
C6_Witness ==
    /\ ~options.enable_resubmission
    /\ \E i \in 1..Len(Items) :
          LET h == Hash(Items[i])
              first == submit_seal(Miner, h, ValidSeal)
          IN /\ first.ret = "Ok"
             /\ first.chain.best_number = Items[i].number
             /\ submit_seal(first, h, ValidSeal).ret = "PowHashInvalid"

\* the entry points that may run prepare_block
AssemblingOps ==
    {"update_sealing", "prepare_work_sealing", "map_pending_block", "import_own_transaction",
     "import_external_transactions", "chain_new_blocks"}

\* the i-th candidate of the history is gone after the step
Dropped(i) == Hash(Items[i]) \notin Hashes(sealing'.queue)

\* the step pushed onto a full history, which dropped the oldest candidate
ByOverflow(i) ==
    /\ i = 1
    /\ Len(Items) = sealing.queue.max_size
    /\ Len(sealing'.queue.items) = sealing.queue.max_size
    /\ SubSeq(sealing'.queue.items, 1, Len(Items) - 1) = Tail(Items)

\* the step reset the history: clear, or the reseal check putting the sealer to sleep
ByReset ==
    /\ sealing'.queue.items = <<>>
    /\ \/ out'.op = "clear"
       \/ ~sealing.enabled /\ ~sealing'.enabled /\ out'.op \in AssemblingOps

\* submit_seal took the candidate out (resubmission off)
ByTake(i) ==
    /\ out'.op = "submit_seal" /\ out'.ret # "PowHashInvalid"
    /\ ~options.enable_resubmission
    /\ sealing'.queue.items = RemoveAt(Items, i)

\* prepare_block popped the newest candidate, built on the current best block,
\* to reopen it
ByPopIf(i) ==
    /\ i = Len(Items)
    /\ Items[i].parent = chain.best_hash
    /\ out'.op \in AssemblingOps

AssembledFirstBlock(r) ==
    \E i \in 1..Len(r.trace) : r.trace[i] = [k |-> "assembled", number |-> 1]

\* no block was imported, no proposal broadcast, no work pushed or notified
NoSealedBlock(r) ==
    /\ ~HasChainCall(r, "import_sealed_block")
    /\ ~HasChainCall(r, "broadcast_proposal_block")
    /\ ~HasEvent(r, "notify")
    /\ ~HasEvent(r, "push")

\* the answers on which prepare_block removes a transaction from the pool
Removing == PushOutcomes \ {"Ok", "InvalidNonce", "GasLimit", "GasLimitFull"}

\* C8: when update_sealing assembles block number 1 and the engine params hold
\* a bug-fix hard fork, it produces no sealed block and leaves the sealing state
\* and the pool as they were.
C8_ForkGuardLeavesStateUnchanged ==
    \A e \in Envs(Miner, pool.txs) :
        LET r == update_sealing(Miner, e)
        IN (AssembledFirstBlock(r) /\ engine.contains_bugfix_hard_fork) =>
              /\ NoSealedBlock(r)
              /\ r.sealing = sealing
              /\ r.pool = pool

\* C8, amended: when update_sealing assembles block number 1 and the engine
\* params hold a bug-fix hard fork, it produces no sealed block; the work
\* history, the enabled flag, the mandatory reseal deadline and the last work
\* request are unchanged, next_allowed_reseal is set to now + reseal_min_period,
\* and the pool loses exactly the transactions the assembly refused as invalid
\* or not allowed.
C8_ForkGuardEffects ==
    \A e \in Envs(Miner, pool.txs) :
        LET r == update_sealing(Miner, e)
        IN (AssembledFirstBlock(r) /\ engine.contains_bugfix_hard_fork) =>
              /\ NoSealedBlock(r)
              /\ r.sealing = [sealing EXCEPT !.next_allowed_reseal = now + options.reseal_min_period]
              /\ r.pool = PoolRemove(pool, { tx \in pool.txs : e.oc[tx] \in Removing })
              /\ r.chain = chain

\* the guard is hit, and the call moves next_allowed_reseal and removes a
\* transaction from the pool
C8_Witness ==
    /\ engine.contains_bugfix_hard_fork
    /\ \E e \in Envs(Miner, pool.txs) :
          LET r == update_sealing(Miner, e)
          IN /\ AssembledFirstBlock(r)
             /\ r.sealing.next_allowed_reseal # sealing.next_allowed_reseal
             /\ r.pool.txs # pool.txs

\* the latest block numbers a query may be given
LatestBlockNumbers == 0..(MaxBest + 1)

C10_QueriesAboveTheCandidate ==
    (/\ out.op = "import_own_transaction" /\ out.ret = TRUE
     /\ options.pending_set = "AlwaysSealing"
     /\ Len(Items) = 1 /\ Items[1].number = 1 /\ Len(Items[1].txs) = 1
     /\ Range(Items[1].txs) = pool.local)
    => /\ pending_transactions(Miner, 10) = Some(Items[1].txs)
       /\ pending_receipts(Miner, 10) = Some({})
       /\ ready_transactions(Miner) = <<>>

\* the test miner with nothing in the work history and nothing in the pool
FreshWork == Items = <<>> /\ pool.txs = {}

\* what the queries see after a handler returned r with one candidate holding tx
OneCandidateWith(r, tx) ==
    /\ Len(r.sealing.queue.items) = 1
    /\ r.sealing.queue.items[1].txs = <<tx>>
    /\ pending_transactions(r, 0) = Some(<<tx>>)
    /\ pending_receipts(r, 0) # None
    /\ Cardinality(pending_receipts(r, 0)[1]) = 1
    /\ Len(ready_transactions(r)) = 1

\* the answers under which the block accepts every transaction
AllOk(txs) == [t \in txs |-> "Ok"]

\* C11: with reseal_on_own_tx set, AlwaysSealing mode, an external-work engine
\* and an empty work history, a successful import_own_transaction leaves a
\* candidate holding the transaction, the three queries each show one item, and
\* a following prepare_work_sealing returns false.
C11_OwnTransactionMakesCandidate ==
    (FreshWork /\ options.reseal_on_own_tx /\ options.pending_set = "AlwaysSealing")
    => \A tx \in Txs : Importable(tx) =>
          \A e \in Envs(Miner, {tx}) :
              /\ OneCandidateWith(import_own_transaction(Miner, tx, TRUE, e), tx)
              /\ ~prepare_work_sealing(import_own_transaction(Miner, tx, TRUE, e), e.oc).ret

\* C11, amended: the same, when the reseal throttle lets the import through
\* (now > next_allowed_reseal) and the block accepts the transaction; under the
\* throttle the import leaves the work history empty.
C11_OwnTransactionMakesCandidateWhenAllowed ==
    (FreshWork /\ options.reseal_on_own_tx /\ options.pending_set = "AlwaysSealing")
    => \A tx \in Txs : Importable(tx) =>
          \A e \in Envs(Miner, {tx}) :
              IF now > sealing.next_allowed_reseal
              THEN e.oc[tx] = "Ok" =>
                     /\ OneCandidateWith(import_own_transaction(Miner, tx, TRUE, e), tx)
                     /\ ~prepare_work_sealing(import_own_transaction(Miner, tx, TRUE, e), e.oc).ret
              ELSE import_own_transaction(Miner, tx, TRUE, e).sealing.queue.items = <<>>

\* the throttle is open, the work is fresh, and an own transaction makes the candidate
C11_Witness ==
    /\ FreshWork /\ options.reseal_on_own_tx /\ options.pending_set = "AlwaysSealing"
    /\ now > sealing.next_allowed_reseal
    /\ \E tx \in Txs :
          /\ Importable(tx)
          /\ \E e \in Envs(Miner, {tx}) :
                /\ e.oc[tx] = "Ok"
                /\ OneCandidateWith(import_own_transaction(Miner, tx, TRUE, e), tx)
                /\ ~prepare_work_sealing(import_own_transaction(Miner, tx, TRUE, e), e.oc).ret


\* C12: with reseal_on_external_tx off and AlwaysSealing mode, a successful
\* import of one external transaction creates no candidate:
\* pending_transactions(0) and pending_receipts(0) return a present, empty
\* collection, ready_transactions returns exactly 1 transaction, and a following
\* prepare_work_sealing returns true.
C12_ExternalTransactionMakesNoCandidate ==
    (FreshWork /\ ~options.reseal_on_external_tx /\ options.pending_set = "AlwaysSealing")
    => \A tx \in Txs : Importable(tx) =>
          \A e \in Envs(Miner, {tx}) :
              LET r == import_external_transactions(Miner, <<tx>>, <<TRUE>>, e)
              IN /\ r.sealing.queue.items = <<>>
                 /\ pending_transactions(r, 0) = Some(<<>>)
                 /\ pending_receipts(r, 0) = Some({})
                 /\ Len(ready_transactions(r)) = 1
                 /\ prepare_work_sealing(r, e.oc).ret


\* C13: on a miner with an empty work history, map_pending_block assembles a
\* candidate on demand and returns Some; a submit_seal with that candidate's
\* hash and a seal the engine accepts then returns Ok and imports the block.
C13_WorkOnDemand ==
    Items = <<>> =>
        \A oc \in Outcomes(pool.txs) :
            LET r == map_pending_block(Miner, oc)
                s == submit_seal(r, r.ret[1], ValidSeal)
            IN /\ r.ret # None
               /\ HasEvent(r, "assembled")
               /\ r.ret[1] \in Hashes(r.sealing.queue)
               /\ s.ret = "Ok"
               /\ HasChainCall(s, "import_sealed_block")
               /\ s.chain.best_number = chain.best_number + 1

\* map_pending_block has just built the first candidate from an empty pool, and
\* a valid seal for the hash it returned is accepted
C13_Witness ==
    /\ out.op = "map_pending_block" /\ out.ret # None
    /\ Len(Items) = 1 /\ Items[1].txs = <<>> /\ pool.txs = {}
    /\ out.ret[1] = Hash(Items[1])
    /\ submit_seal(Miner, out.ret[1], ValidSeal).ret = "Ok"


---------------------------------------------------------------------------
(* The reseal throttle *)

\* the reseal period of the throttled test miner
ThrottlePeriod == 1

\* the test miner with a reseal period that the clock can fall short of
InitThrottle ==
    \E opts \in MinerOptions :
        /\ TestOptions(opts) /\ opts.enable_resubmission
        /\ InitWith([opts EXCEPT !.reseal_min_period = ThrottlePeriod], ExternalEngine, FALSE)

SpecThrottle == InitThrottle /\ [][NextSealing]_vars


\* the miner r, d ticks later, before its next handler runs
Later(r, d) == [r EXCEPT !.now = r.now + d, !.ret = None, !.trace = <<>>]

\* whether a handler assembled a block
Assembled(r) == HasEvent(r, "assembled")

\* some import of a transaction into the miner m assembles a block
ImportAssembles(m) ==
    \E tx \in Txs \ (m.pool.txs \cup m.chain.mined) :
        \E e \in Envs(m, m.pool.txs \cup {tx}) :
            \/ Assembled(import_own_transaction(m, tx, TRUE, e))
            \/ Assembled(import_external_transactions(m, <<tx>>, <<TRUE>>, e))

\* some chain_new_blocks with an enacted block told to the miner m assembles a block
EnactedAssembles(m) ==
    \E e \in Envs(m, m.pool.txs) :
        Assembled(chain_new_blocks(m, <<>>, <<m.chain.best_hash>>, {}, e))

\* C14: after an update_sealing that assembled a block, no transaction import
\* and no chain_new_blocks arriving less than reseal_min_period later assembles
\* a block (sealing is not forced here).
C14_ResealThrottle ==
    \A e \in Envs(Miner, pool.txs) :
        Assembled(update_sealing(Miner, e)) =>
            \A d \in 0..(options.reseal_min_period - 1) :
                /\ ~ImportAssembles(Later(update_sealing(Miner, e), d))
                /\ ~EnactedAssembles(Later(update_sealing(Miner, e), d))

\* C14, amended: an update_sealing that assembles a block sets
\* next_allowed_reseal to now + reseal_min_period; a transaction import
\* assembles a block only when now > next_allowed_reseal, so none does within
\* reseal_min_period of an update_sealing that assembled one. chain_new_blocks
\* and direct calls of update_sealing are not throttled.
C14_ImportThrottle ==
    /\ ImportAssembles(Miner) => now > sealing.next_allowed_reseal
    /\ \A e \in Envs(Miner, pool.txs) :
          Assembled(update_sealing(Miner, e)) =>
              /\ update_sealing(Miner, e).sealing.next_allowed_reseal
                     = now + options.reseal_min_period
              /\ \A d \in 0..options.reseal_min_period :
                     ~ImportAssembles(Later(update_sealing(Miner, e), d))

\* an update_sealing assembles a block; an own transaction imported within the
\* period assembles nothing, one imported after it does
C14_Witness ==
    /\ options.reseal_min_period > 0
    /\ \E e \in Envs(Miner, pool.txs) :
          /\ Assembled(update_sealing(Miner, e))
          /\ Txs \ (pool.txs \cup chain.mined) # {}
          /\ ~ImportAssembles(Later(update_sealing(Miner, e), options.reseal_min_period))
          /\ ImportAssembles(Later(update_sealing(Miner, e), options.reseal_min_period + 1))


---------------------------------------------------------------------------
(* The mandatory cadence of internal sealing *)

\* the clock of the cadence miner runs to MaxCadenceTime
MaxCadenceTime == 4

\* the answers of the chain client and the engine to an internal sealing
SealChoices(m) == Envs(m, {})

\* the step of update_sealing that hands an assembled block without
\* transactions to seal_and_import_block_internally (the arm Some(true)),
\* taken on its own: the reseal check that precedes it is left out
SealInternally ==
    /\ SealsInternally(Miner) = Some(TRUE)
    /\ \E e \in SealChoices(Miner) :
          Apply(seal_and_import_block_internally(Miner, PrepareOpenBlock(Miner), e),
                "seal_and_import_block_internally")

\* the clock beyond MaxTime
LateTick ==
    /\ MaxTime <= now /\ now < MaxCadenceTime
    /\ Apply([Miner EXCEPT !.now = now + 1], "tick")

\* the triggers of internal sealing, the registration of a listener, the clock
NextCadence ==
    \/ UpdateSealing
    \/ ImportOwnTransaction
    \/ SealInternally
    \/ AddWorkListener
    \/ Tick
    \/ LateTick

\* MinerOptions::default with either setting of force_sealing
CadenceOptions(opts) ==
    /\ ~opts.reseal_on_external_tx /\ opts.reseal_on_own_tx
    /\ ~opts.reseal_on_uncle /\ opts.pending_set = "AlwaysQueue" /\ opts.enable_resubmission

InitCadence ==
    \E opts \in MinerOptions : CadenceOptions(opts) /\ InitWith(opts, InternalEngine, FALSE)

SpecCadence == InitCadence /\ [][NextCadence]_vars


\* some internal sealing of a block without transactions by the miner m
\* produces a seal: a Regular seal imported or a Proposal broadcast
SealsEmptyBlock(m) ==
    \E e \in SealChoices(m) :
        seal_and_import_block_internally(m, PrepareOpenBlock(m), e).ret

\* after every internal sealing that produced a seal, none is produced for the
\* next period ticks
NoSealWithin(period) ==
    \A e \in SealChoices(Miner) :
        seal_and_import_block_internally(Miner, PrepareOpenBlock(Miner), e).ret =>
            \A d \in 0..period :
                ~SealsEmptyBlock(Later(
                    seal_and_import_block_internally(Miner, PrepareOpenBlock(Miner), e), d))

Unforced == ~options.force_sealing /\ listeners = 0

---------------------------------------------------------------------------
(* Resealing on external transactions *)

\* the test miner with either setting of reseal_on_external_tx
InitExternalReseal ==
    \E opts \in MinerOptions :
        /\ ~opts.force_sealing /\ opts.reseal_on_own_tx /\ ~opts.reseal_on_uncle
        /\ opts.pending_set = "AlwaysSealing" /\ opts.enable_resubmission
        /\ InitWith(opts, ExternalEngine, FALSE)

SpecExternalReseal == InitExternalReseal /\ [][NextSealing]_vars

\* the batches import_external_transactions may be given, each with the
\* verdicts the pool may return
BatchResults ==
    { br \in UNION { {b} \X [1..Len(b) -> BOOLEAN] : b \in Batches } :
        \A i \in 1..Len(br[1]) : br[2][i] => Importable(br[1][i]) }

\* whether a handler called update_sealing
Triggered(r) == HasEvent(r, "update_sealing")

\* C16: import_external_transactions triggers update_sealing exactly when at
\* least one transaction of the batch was imported, reseal_on_external_tx is
\* set and now > next_allowed_reseal; a non-empty batch whose imports all
\* failed triggers nothing.
C16_ExternalTriggerOnSuccess ==
    \A br \in BatchResults :
        \A e \in Envs(Miner, pool.txs \cup Range(br[1])) :
            Triggered(import_external_transactions(Miner, br[1], br[2], e))
            <=> /\ \E i \in 1..Len(br[2]) : br[2][i]
                /\ options.reseal_on_external_tx
                /\ now > sealing.next_allowed_reseal

\* C16, amended: import_external_transactions triggers update_sealing exactly
\* when the batch is not empty, reseal_on_external_tx is set and
\* now > next_allowed_reseal, whether or not any import succeeded.
C16_ExternalTriggerOnBatch ==
    \A br \in BatchResults :
        \A e \in Envs(Miner, pool.txs \cup Range(br[1])) :
            Triggered(import_external_transactions(Miner, br[1], br[2], e))
            <=> /\ Len(br[1]) > 0
                /\ options.reseal_on_external_tx
                /\ now > sealing.next_allowed_reseal

\* a batch of one transaction that the pool refuses triggers update_sealing,
\* which assembles a block, and leaves the pool as it was
C16_Witness ==
    /\ options.reseal_on_external_tx
    /\ \E tx \in Txs :
          \E e \in Envs(Miner, pool.txs \cup {tx}) :
              /\ Triggered(import_external_transactions(Miner, <<tx>>, <<FALSE>>, e))
              /\ Assembled(import_external_transactions(Miner, <<tx>>, <<FALSE>>, e))
              /\ import_external_transactions(Miner, <<tx>>, <<FALSE>>, e).pool = pool


---------------------------------------------------------------------------
(* New blocks of the chain *)

\* the test miner with either setting of reseal_on_uncle
InitUncle ==
    \E opts \in MinerOptions :
        /\ ~opts.force_sealing /\ ~opts.reseal_on_external_tx /\ opts.reseal_on_own_tx
        /\ opts.pending_set = "AlwaysSealing" /\ opts.enable_resubmission
        /\ InitWith(opts, ExternalEngine, FALSE)

\* the chain growing and reorganising, the miner told of it, transactions imported
NextChain ==
    \/ ChainNewBlocks
    \/ ImportOwnTransaction
    \/ ImportExternalTransactions
    \/ AddBlocks
    \/ Reorg
    \/ Tick

SpecChain == InitUncle /\ [][NextChain]_vars

\* the position of the first event ev in the trace of r, or 0
FirstAt(r, ev) ==
    IF \E i \in 1..Len(r.trace) : r.trace[i] = ev
    THEN CHOOSE i \in 1..Len(r.trace) :
            r.trace[i] = ev /\ \A j \in 1..(i - 1) : r.trace[j] # ev
    ELSE 0

\* what chain_new_blocks may be told
NewBlocksInputs ==
    {<<>>, <<chain.best_hash>>} \X {<<>>, <<chain.best_hash>>}
        \X ({{}} \cup { {t} : t \in Txs \ chain.mined })

\* the steps of one chain_new_blocks, in the order the claim gives them
NewBlocksInOrder(r, imported, enacted, retracted) ==
    LET recalibrate == FirstAt(r, [k |-> "recalibrate"])
        reimport == FirstAt(r, [k |-> "pool", f |-> "import_retracted"])
        cull == FirstAt(r, [k |-> "pool", f |-> "cull"])
        update == FirstAt(r, [k |-> "update_sealing"])
    IN /\ recalibrate > 0
       /\ IF retracted = {} THEN reimport = 0 ELSE reimport > recalibrate
       /\ cull > recalibrate /\ cull > reimport
       /\ update # 0 => update > cull
       /\ update # 0 <=> (Len(enacted) > 0 \/ (Len(imported) > 0 /\ options.reseal_on_uncle))
       /\ update = 0 => r.pool.txs = (pool.txs \cup retracted) \ chain.mined

\* C17: chain_new_blocks calls update_sealing if and only if the enacted list
\* is non-empty, or the imported list is non-empty and reseal_on_uncle is set;
\* before that, in this order, it recalibrates gas pricing, re-imports the
\* transactions of the retracted blocks as retracted, and culls the pool.
C17_NewBlocksOrderAndTrigger ==
    \A in \in NewBlocksInputs :
        \A e \in Envs(Miner, pool.txs \cup in[3]) :
            NewBlocksInOrder(chain_new_blocks(Miner, in[1], in[2], in[3], e),
                             in[1], in[2], in[3])

\* reseal_on_uncle is set and the chain has just reorganised; a chain_new_blocks
\* with an imported block, no enacted block and a retracted transaction
\* re-imports it and calls update_sealing
C17_Witness ==
    /\ options.reseal_on_uncle
    /\ out.op = "reorg"
    /\ \E t \in Txs \ (chain.mined \cup pool.txs) :
          \E e \in Envs(Miner, pool.txs \cup {t}) :
              /\ Triggered(chain_new_blocks(Miner, <<chain.best_hash>>, <<>>, {t}, e))
              /\ NewBlocksInOrder(chain_new_blocks(Miner, <<chain.best_hash>>, <<>>, {t}, e),
                                  <<chain.best_hash>>, <<>>, {t})


---------------------------------------------------------------------------
(* The authoring parameters *)

\* block assembly and the setters of the authoring parameters
NextParams ==
    \/ UpdateSealing
    \/ PrepareWorkSealing
    \/ SetAuthor
    \/ SetGasRangeTarget
    \/ SetExtraData
    \/ AddBlocks

\* the test miner, resubmission on
InitParams ==
    \E opts \in MinerOptions :
        TestOptions(opts) /\ opts.enable_resubmission /\ InitWith(opts, ExternalEngine, FALSE)

SpecParams == InitParams /\ [][NextParams]_vars


\* whether block b carries the authoring parameters p
BuiltWith(b, p) ==
    /\ b.author = p.author
    /\ b.gas_range_target = p.gas_range_target
    /\ b.extra_data = p.extra_data

\* the newest candidate of the history is built on the best block
NewestOnBest == Len(Items) > 0 /\ Items[Len(Items)].parent = chain.best_hash

\* C18: the next block assembly builds its block with the current author,
\* gas-range target and extra data, also when a candidate built with the old
\* parameters on the same parent is the newest entry of the work history; the
\* candidates already in the history are not altered.
C18_ParamsTakeEffectOnNextAssembly ==
    \A oc \in Outcomes(pool.txs) :
        /\ BuiltWith(prepare_block(Miner, oc).ret[1], params)
        /\ \A i \in 1..Len(prepare_block(Miner, oc).sealing.queue.items) :
              prepare_block(Miner, oc).sealing.queue.items[i] = Items[i]

\* C18, amended: an assembly that opens a new block builds it with the current
\* authoring parameters; an assembly that finds the newest candidate built on
\* the current best block reopens that candidate, and the block keeps the
\* parameters the candidate was built with. The other candidates of the
\* history are not altered.
C18_ParamsTakeEffectOnNewBlocks ==
    \A oc \in Outcomes(pool.txs) :
        /\ IF NewestOnBest
           THEN /\ BuiltWith(prepare_block(Miner, oc).ret[1], Items[Len(Items)])
                /\ prepare_block(Miner, oc).sealing.queue.items
                       = SubSeq(Items, 1, Len(Items) - 1)
           ELSE /\ BuiltWith(prepare_block(Miner, oc).ret[1], params)
                /\ prepare_block(Miner, oc).sealing.queue.items = Items

\* a setter has just changed a parameter, the newest candidate is built on the
\* best block with the old parameters, and an update_sealing assembles a block
\* that leaves the newest candidate with the old parameters
C18_Witness ==
    /\ out.op \in {"set_author", "set_gas_range_target", "set_extra_data"}
    /\ NewestOnBest
    /\ ~BuiltWith(Items[Len(Items)], params)
    /\ \E e \in Envs(Miner, pool.txs) :
          /\ Assembled(update_sealing(Miner, e))
          /\ ~BuiltWith(prepare_block(Miner, e.oc).ret[1], params)
          /\ update_sealing(Miner, e).sealing.queue.items = Items


\* hashes that no candidate of the work history has: the hash of no block, and
\* the hash of a block that could be opened now, unless the history holds it
UnknownHashes == {None, Hash(PrepareOpenBlock(Miner))} \ Hashes(sealing.queue)

\* submit_seal imported nothing
NothingImported(r) == ~HasChainCall(r, "import_sealed_block") /\ r.chain = chain

\* C19: submit_seal with a block hash that matches no candidate of the work
\* history returns PowHashInvalid, imports nothing and leaves the entries of
\* the history unchanged; a seal rejected by try_seal returns PowInvalid and
\* imports nothing.
C19_RejectedSeals ==
    /\ \A h \in UnknownHashes, e \in SubmitAnswers :
          /\ submit_seal(Miner, h, e).ret = "PowHashInvalid"
          /\ NothingImported(submit_seal(Miner, h, e))
          /\ submit_seal(Miner, h, e).sealing.queue.items = Items
    /\ \A h \in Hashes(sealing.queue), e \in SubmitAnswers :
          ~e.seal_valid =>
              /\ submit_seal(Miner, h, e).ret = "PowInvalid"
              /\ NothingImported(submit_seal(Miner, h, e))

\* a submit_seal has just been refused with PowHashInvalid on a history that
\* holds candidates, and a rejected seal for one of them returns PowInvalid
C19_Witness ==
    /\ out.op = "submit_seal" /\ out.ret = "PowHashInvalid"
    /\ Len(Items) = 2
    /\ UnknownHashes # {None}
    /\ \E h \in Hashes(sealing.queue) :
          submit_seal(Miner, h, [seal_valid |-> FALSE, import_ok |-> TRUE]).ret = "PowInvalid"


---------------------------------------------------------------------------
(* Setting the author *)

\* the test miner on any engine without a bug-fix hard fork, with or without
\* an account provider
InitAuthor ==
    \E opts \in MinerOptions, eng \in Engines, acc \in BOOLEAN :
        /\ TestOptions(opts) /\ opts.enable_resubmission
        /\ ~eng.contains_bugfix_hard_fork
        /\ InitWith(opts, eng, acc)

\* set_author among the triggers of sealing
NextAuthor ==
    \/ SetAuthor
    \/ UpdateSealing
    \/ PrepareWorkSealing
    \/ ImportOwnTransaction
    \/ AddBlocks
    \/ Tick

SpecAuthor == InitAuthor /\ [][NextAuthor]_vars

\* the handler left the sealing state and the engine alone
SealingUntouched(r) ==
    /\ r.sealing = sealing
    /\ r.engine = engine
    /\ \A i \in 1..Len(r.trace) : r.trace[i] # [k |-> "engine", f |-> "set_signer"]
    /\ ~HasEvent(r, "lock")

\* C20: set_author on a miner whose engine seals internally and that has no
\* account provider returns NotFound, does not enable sealing and does not
\* call the engine's set_signer; with an engine that does not seal internally
\* it returns Ok without touching the sealing state.
C20_SetAuthorWithoutAccounts ==
    \A address \in 0..MaxParam, sign_ok \in BOOLEAN :
        /\ (IsSome(engine.seals) /\ ~accounts) =>
              /\ set_author(Miner, address, sign_ok).ret = "NotFound"
              /\ SealingUntouched(set_author(Miner, address, sign_ok))
        /\ ~IsSome(engine.seals) =>
              /\ set_author(Miner, address, sign_ok).ret = "Ok"
              /\ SealingUntouched(set_author(Miner, address, sign_ok))

\* set_author has just failed with NotFound on an internally sealing engine
\* without an account provider: the engine has no signer, the author is written
C20_Witness ==
    /\ out.op = "set_author" /\ out.ret = "NotFound"
    /\ engine.seals = Some(TRUE) /\ ~accounts
    /\ engine.signer = None
    /\ params.author # DefaultParams.author


---------------------------------------------------------------------------
(* Lock discipline *)

\* whether the sealing lock is held when event i of the trace t happens
LockHeld(t, i) ==
    Cardinality({ j \in 1..(i - 1) : t[j].k = "lock" })
        > Cardinality({ j \in 1..(i - 1) : t[j].k = "unlock" })

\* the events of the trace of r that are in evs all happen outside the sealing lock
OutsideLock(r, evs) ==
    \A i \in 1..Len(r.trace) : r.trace[i] \in evs => ~LockHeld(r.trace, i)

\* every call of an entry point the environment can make now keeps its events
\* in evs outside the sealing lock
EntryPointsKeepOutside(evs) ==
    /\ \A e \in Envs(Miner, pool.txs) : OutsideLock(update_sealing(Miner, e), evs)
    /\ \A oc \in Outcomes(pool.txs) : OutsideLock(prepare_work_sealing(Miner, oc), evs)
    /\ \A oc \in Outcomes(pool.txs) : OutsideLock(map_pending_block(Miner, oc), evs)
    /\ \A h \in SubmittableHashes, e \in SubmitAnswers :
          OutsideLock(submit_seal(Miner, h, e), evs)
    /\ \A tx \in Txs \ (pool.txs \cup chain.mined) :
          \A e \in Envs(Miner, pool.txs \cup {tx}) :
              /\ OutsideLock(import_own_transaction(Miner, tx, TRUE, e), evs)
              /\ OutsideLock(import_external_transactions(Miner, <<tx>>, <<TRUE>>, e), evs)
    /\ \A e \in Envs(Miner, pool.txs) :
          OutsideLock(chain_new_blocks(Miner, <<>>, <<chain.best_hash>>, {}, e), evs)
    /\ OutsideLock(clear(Miner), evs)

\* the calls into the transaction queue
PoolCalls ==
    { [k |-> "pool", f |-> f] :
        f \in {"has_local_transactions", "pending", "remove", "import", "import_retracted",
               "cull"} }

\* C21: no entry point calls into the transaction queue while it holds the
\* sealing lock.
C21_PoolBeforeSealing == EntryPointsKeepOutside(PoolCalls)

\* the calls that cross into the chain client or the engine
BoundaryCalls ==
    { [k |-> "chain", f |-> f] :
        f \in {"block_header", "reopen_block", "prepare_open_block", "import_sealed_block",
               "broadcast_proposal_block"} }
    \cup { [k |-> "engine", f |-> f] : f \in {"generate_seal", "try_seal", "set_signer"} }

\* C22: the sealing lock is never held while a call crosses into the chain
\* client or the engine (block_header, reopen_block, prepare_open_block,
\* generate_seal, try_seal, import_sealed_block, broadcast_proposal_block,
\* set_signer).
C22_NoBoundaryCallUnderSealingLock == EntryPointsKeepOutside(BoundaryCalls)


---------------------------------------------------------------------------
(* Candidates added by update_sealing *)

\* the number of candidates a handler pushed onto the work history
PushCount(r) == Cardinality({ i \in 1..Len(r.trace) : r.trace[i].k = "push" })

\* whether a handler asked the engine for a seal
AskedForSeal(r) ==
    \E i \in 1..Len(r.trace) : r.trace[i] = [k |-> "engine", f |-> "generate_seal"]

\* what one sealing attempt may add to the history, by the engine's answers
AddsByEngine(r, e) ==
    /\ PushCount(r) <= 1
    /\ Len(r.sealing.queue.items) <= Len(Items) + 1
    /\ engine.seals = None => PushCount(r) <= 1
    /\ engine.seals = Some(FALSE) => PushCount(r) = 0
    /\ engine.seals = Some(TRUE) =>
          /\ e.seal \in {"Regular", "None"} => PushCount(r) = 0
          /\ e.seal = "Proposal" => (PushCount(r) = 1 <=> AskedForSeal(r))

\* C23: one update_sealing adds at most one candidate to the work history: at
\* most one on the external-work path and on a Proposal seal, none on a Regular
\* seal, on Seal::None, when the engine answers Some(false), or when the reseal
\* gate is closed. The second conjunct is update_sealing past the reseal gate.
C23_AtMostOneCandidatePerUpdate ==
    /\ \A e \in Envs(Miner, pool.txs) :
          /\ AddsByEngine(update_sealing(Miner, e), e)
          /\ ~Assembled(update_sealing(Miner, e)) => PushCount(update_sealing(Miner, e)) = 0
    /\ \A e \in Envs(Miner, pool.txs) :
          AddsByEngine(update_sealing_block(prepare_block(Miner, e.oc), e), e)

\* on the external-work path an update_sealing assembles a block and pushes
\* exactly one candidate onto a history that holds one already
C23_Witness ==
    /\ engine.seals = None
    /\ Len(Items) = 1
    /\ \E e \in Envs(Miner, pool.txs) :
          /\ Assembled(update_sealing(Miner, e))
          /\ PushCount(update_sealing(Miner, e)) = 1
          /\ Len(update_sealing(Miner, e).sealing.queue.items) = 2


---------------------------------------------------------------------------
(* Draining the pool into an open block *)

\* the pool holds at most the transactions 1..MaxDrainTx
MaxDrainTx == 10

\* pools of at most MaxExhaustive transactions get every combination of answers
MaxExhaustive == 3

\* the answers of the chain client and the engine when only the state's answers
\* to the pushed transactions matter
DrainEnv(oc) ==
    [oc |-> oc, parent_known |-> TRUE, seal |-> "None", seal_ok |-> TRUE, import_ok |-> TRUE]

\* every pushed transaction gets the same answer
UniformOutcomes(txs) == { [tx \in txs |-> x] : x \in PushOutcomes }

\* the next transaction arrives from the network and the pool accepts it
ImportNextTransaction ==
    /\ pool.txs = 1..Cardinality(pool.txs)
    /\ Cardinality(pool.txs) < MaxDrainTx
    /\ Apply(import_external_transactions(
                 Miner, <<Cardinality(pool.txs) + 1>>, <<TRUE>>,
                 DrainEnv([tx \in pool.txs \cup {Cardinality(pool.txs) + 1} |-> "Ok"])),
             "import_external_transactions")

UpdateSealingDrain ==
    \E oc \in UniformOutcomes(pool.txs) :
        Apply(update_sealing(Miner, DrainEnv(oc)), "update_sealing")

PrepareWorkSealingDrain ==
    \E oc \in UniformOutcomes(pool.txs) :
        Apply(prepare_work_sealing(Miner, oc), "prepare_work_sealing")

NextDrain ==
    \/ ImportNextTransaction
    \/ UpdateSealingDrain
    \/ PrepareWorkSealingDrain

\* the test miner, which resubmits work to its listeners
InitDrain ==
    \E opts \in MinerOptions :
        TestOptions(opts) /\ opts.enable_resubmission /\ InitWith(opts, ExternalEngine, FALSE)

\* the test miner taking external work, its pool filling from the network
SpecDrain == InitDrain /\ [][NextDrain]_vars

\* the answers checked against a pool: every combination for a small pool, every
\* mix of a plain gas-limit refusal with one other answer for a larger one
DrainOutcomes(txs) ==
    IF Cardinality(txs) <= MaxExhaustive
    THEN [txs -> PushOutcomes]
    ELSE UNION { [txs -> {"GasLimit", x}] : x \in PushOutcomes }

\* the transactions of the block the next assembly fills: those of the newest
\* candidate when it is reopened, none for a new block
OpenTxs ==
    IF Len(Items) > 0 /\ SameParent(Items[Len(Items)], chain.best_hash)
    THEN Items[Len(Items)].txs ELSE <<>>

NewAcc(txs) ==
    [txs |-> txs, invalid |-> {}, not_allowed |-> {}, tx_count |-> 0, skipped |-> 0,
     stopped |-> FALSE]

RECURSIVE Handled(_, _, _, _)
\* the number of transactions the loop takes from the pending list
Handled(pending, i, acc, oc) ==
    IF i > Len(pending) \/ acc.stopped THEN 0
    ELSE 1 + Handled(pending, i + 1, DrainStep(acc, pending[i], oc), oc)

\* the positions up to i whose push answers one of kinds
Answered(pending, t0, oc, i, kinds) ==
    { j \in 1..i : PushResult(t0, pending[j], oc) \in kinds }

GasLimitSkips == {"GasLimit", "GasLimitOver"}
GasLimitStops == {"GasLimitFull", "GasLimitOverFull"}

\* position i ends the loop: no room for another transaction, or the ninth skip
StopsAt(pending, t0, oc, i) ==
    \/ PushResult(t0, pending[i], oc) \in GasLimitStops
    \/ /\ PushResult(t0, pending[i], oc) \in GasLimitSkips
       /\ Cardinality(Answered(pending, t0, oc, i, GasLimitSkips)) = MaxSkipped + 1

\* the loop handled the first n pending transactions and ended with acc
DrainStopsAt(pending, t0, oc, n, acc) ==
    /\ Cardinality(Answered(pending, t0, oc, n, GasLimitOutcomes)) <= MaxSkipped + 1
    /\ \A i \in 1..(n - 1) : ~StopsAt(pending, t0, oc, i)
    /\ n < Len(pending) => StopsAt(pending, t0, oc, n)
    /\ acc.stopped <=> (n > 0 /\ StopsAt(pending, t0, oc, n))
    /\ acc.skipped = Cardinality(Answered(pending, t0, oc, n, GasLimitSkips))

\* C24: draining stops at the first BlockGasLimitReached that leaves less than
\* the minimal transaction gas, otherwise at the ninth gas-limit skip, so at most
\* 9 BlockGasLimitReached answers are handled in one assembly; InvalidNonce,
\* AlreadyImported, NotAllowed and other errors neither stop it nor count as skips.
C24_DrainStops ==
    \A oc \in DrainOutcomes(pool.txs) :
        DrainStopsAt(PoolPending(pool), OpenTxs, oc,
                     Handled(PoolPending(pool), 1, NewAcc(OpenTxs), oc),
                     Drain(PoolPending(pool), 1, NewAcc(OpenTxs), oc))

\* an assembly ran on a pool of ten transactions, and with every push refused for
\* the gas limit the loop ends at the ninth, the tenth never pushed
C24_Witness ==
    /\ out.op = "update_sealing"
    /\ Cardinality(pool.txs) = MaxDrainTx
    /\ \E oc \in DrainOutcomes(pool.txs) :
          /\ Handled(PoolPending(pool), 1, NewAcc(OpenTxs), oc) = MaxSkipped + 1
          /\ Drain(PoolPending(pool), 1, NewAcc(OpenTxs), oc).skipped = MaxSkipped + 1


\* the pending transactions among the first n whose push answers one of kinds
TxsAnswered(pending, t0, oc, n, kinds) ==
    { pending[j] : j \in Answered(pending, t0, oc, n, kinds) }

\* the answers after which a transaction is removed as invalid
InvalidAnswers == {"GasLimitOver", "GasLimitOverFull", "ExecFailed", "VerifyFailed"}
\* the answers after which a transaction stays in the pool
KeptAnswers == {"Ok", "InvalidNonce", "AlreadyImported", "GasLimit", "GasLimitFull"}

\* the loop handled the first n pending transactions and ended with acc, and
\* prepare_block returned r
RemovesExactly(pending, t0, oc, n, acc, r) ==
    /\ acc.invalid = TxsAnswered(pending, t0, oc, n, InvalidAnswers)
    /\ acc.not_allowed = TxsAnswered(pending, t0, oc, n, {"NotAllowed"})
    /\ r.pool.txs = pool.txs \ (TxsAnswered(pending, t0, oc, n, InvalidAnswers)
                                  \cup TxsAnswered(pending, t0, oc, n, {"NotAllowed"}))
    /\ TxsAnswered(pending, t0, oc, n, KeptAnswers) \subseteq r.pool.txs
    /\ { pending[j] : j \in (n + 1)..Len(pending) } \subseteq r.pool.txs

\* C25: the transactions an assembly removes from the pool are exactly those
\* collected as invalid (refused for the gas limit with gas above the block's gas
\* limit, or failing with any error other than BlockGasLimitReached, InvalidNonce,
\* AlreadyImported and NotAllowed) and those collected as not allowed; the ones
\* that were pushed, skipped for InvalidNonce or AlreadyImported, or never reached
\* stay in the pool.
C25_RemovedAfterAssembly ==
    \A oc \in DrainOutcomes(pool.txs) :
        RemovesExactly(PoolPending(pool), OpenTxs, oc,
                       Handled(PoolPending(pool), 1, NewAcc(OpenTxs), oc),
                       Drain(PoolPending(pool), 1, NewAcc(OpenTxs), oc),
                       prepare_block(Miner, oc))

\* an assembly removed the first transaction and kept the rest, and one more
\* assembly can remove one as invalid, one as not allowed, and leave one unreached
C25_Witness ==
    /\ out.op = "update_sealing"
    /\ 1 \notin pool.txs /\ pool.txs # {}
    /\ \E oc \in DrainOutcomes(pool.txs) :
          /\ Drain(PoolPending(pool), 1, NewAcc(OpenTxs), oc).invalid # {}
          /\ Drain(PoolPending(pool), 1, NewAcc(OpenTxs), oc).not_allowed # {}
          /\ Handled(PoolPending(pool), 1, NewAcc(OpenTxs), oc) < Cardinality(pool.txs)
          /\ Cardinality(prepare_block(Miner, oc).pool.txs) = Cardinality(pool.txs) - 2


---------------------------------------------------------------------------
(* Work pushed and announced by prepare_work *)

\* at most MaxNotifiers work listeners are registered
MaxNotifiers == 2

AddNotifier ==
    /\ listeners < MaxNotifiers
    /\ Apply(add_work_listener(Miner), "add_work_listener")

NextWork ==
    \/ UpdateSealing
    \/ PrepareWorkSealing
    \/ ImportOwnTransaction
    \/ AddNotifier
    \/ AddBlocks
    \/ Clear

\* the test miner taking external work, with listeners registering
SpecWork == InitExternal /\ [][NextWork]_vars

\* the blocks prepare_work is given: the candidates of the history and the
\* blocks an assembly returns
WorkBlocks ==
    Range(Items) \cup { prepare_block(Miner, oc).ret[1] : oc \in Outcomes(pool.txs) }

\* the hash of the newest entry captured before assembly, if there was one
WorkHashes == {None} \cup { Some(Hash(b)) : b \in WorkBlocks }

\* whether the history of m0 is empty or its newest entry's hash is not that of block
NewestDiffers(m0, block) ==
    \/ Len(m0.sealing.queue.items) = 0
    \/ Hash(m0.sealing.queue.items[Len(m0.sealing.queue.items)]) # Hash(block)

\* the newest two entries of a history have different hashes
NewestTwoDiffer(items) ==
    Len(items) >= 2 => Hash(items[Len(items)]) # Hash(items[Len(items) - 1])

\* prepare_work, given block on the miner m0, returned r
PushedIfDiffers(m0, block, r) ==
    /\ PushCount(r) = (IF NewestDiffers(m0, block) THEN 1 ELSE 0)
    /\ NewestDiffers(m0, block) =>
          /\ Len(r.sealing.queue.items) > 0
          /\ r.sealing.queue.items[Len(r.sealing.queue.items)] = block
          /\ Len(r.sealing.queue.items) =
                 IF Len(m0.sealing.queue.items) < m0.sealing.queue.max_size
                 THEN Len(m0.sealing.queue.items) + 1 ELSE m0.sealing.queue.max_size
    /\ ~NewestDiffers(m0, block) => r.sealing.queue = m0.sealing.queue
    /\ NewestTwoDiffer(m0.sealing.queue.items) => NewestTwoDiffer(r.sealing.queue.items)

\* C26: prepare_work pushes the new block if and only if the history is empty or
\* its newest entry's hash differs from the new block's hash, so it never leaves
\* two adjacent entries with the same hash; when the hashes are equal it leaves
\* the history and the in-use flag unchanged.
C26_PushIffNewestDiffers ==
    /\ \A block \in WorkBlocks, h \in WorkHashes :
          PushedIfDiffers(Miner, block, prepare_work(Miner, block, h))
    /\ \A oc \in Outcomes(pool.txs) :
          PushedIfDiffers(prepare_block(Miner, oc), prepare_block(Miner, oc).ret[1],
                          prepare_work_of(prepare_block(Miner, oc)))
    /\ \A i \in 1..(Len(Items) - 1) : Hash(Items[i]) # Hash(Items[i + 1])

\* after an update_sealing the history is in use, and prepare_work given its
\* newest candidate pushes nothing and leaves it in use, while given another
\* block it pushes
C26_Witness ==
    /\ Len(Items) > 0 /\ QueueIsInUse(sealing.queue)
    /\ out.op = "update_sealing"
    /\ PushCount(prepare_work(Miner, Items[Len(Items)], None)) = 0
    /\ QueueIsInUse(prepare_work(Miner, Items[Len(Items)], None).sealing.queue)
    /\ \E block \in WorkBlocks : PushCount(prepare_work(Miner, block, None)) = 1


\* the notifications a handler sent, in order
RECURSIVE Notifications(_, _)
Notifications(t, i) ==
    IF i > Len(t) THEN <<>>
    ELSE IF t[i].k = "notify" THEN <<t[i]>> \o Notifications(t, i + 1)
    ELSE Notifications(t, i + 1)

\* one notification of work to each of n listeners, in registration order
ToEachListener(n, work) == [i \in 1..n |-> [k |-> "notify", listener |-> i, work |-> work]]

\* prepare_work, given block and the hash h captured before assembly on the miner
\* m0, returned r
NotifiedIfNew(m0, block, h, r) ==
    /\ Notifications(r.trace, 1) =
          IF NewestDiffers(m0, block) /\ (h = None \/ h[1] # Hash(block))
          THEN ToEachListener(m0.listeners, <<Hash(block), block.number>>)
          ELSE <<>>
    /\ \A i \in 1..Len(r.trace) : r.trace[i].k = "notify" => ~LockHeld(r.trace, i)

\* C27: prepare_work notifies listeners only for new work, that is when the block
\* was pushed and the hash of the newest entry captured before assembly differs
\* from the new block's hash or there was none; then every registered listener is
\* given the block's hash and number exactly once, in registration order, after
\* the sealing lock was released; otherwise no listener is notified.
C27_NotifyOnlyNewWork ==
    /\ \A block \in WorkBlocks, h \in WorkHashes :
          NotifiedIfNew(Miner, block, h, prepare_work(Miner, block, h))
    /\ \A oc \in Outcomes(pool.txs) :
          NotifiedIfNew(prepare_block(Miner, oc), prepare_block(Miner, oc).ret[1],
                        prepare_block(Miner, oc).ret[2],
                        prepare_work_of(prepare_block(Miner, oc)))

\* two listeners are registered and a candidate is in the history: a block that
\* is new work is announced to both, the newest candidate again to none, and a
\* pushed block whose hash was captured before assembly to none
C27_Witness ==
    /\ listeners = 2 /\ Len(Items) > 0
    /\ out.op \in {"update_sealing", "prepare_work_sealing", "import_own_transaction"}
    /\ \E block \in WorkBlocks :
          Len(Notifications(prepare_work(Miner, block, None).trace, 1)) = 2
    /\ Len(Notifications(prepare_work(Miner, Items[Len(Items)], None).trace, 1)) = 0
    /\ \E block \in WorkBlocks :
          /\ PushCount(prepare_work(Miner, block, Some(Hash(block)))) = 1
          /\ Len(Notifications(prepare_work(Miner, block, Some(Hash(block))).trace, 1)) = 0


---------------------------------------------------------------------------
(* Work requests *)

\* prepare_work_sealing returned r
WorkPrepared(r) ==
    /\ r.ret = (Len(Items) = 0)
    /\ r.ret =>
          /\ r.sealing.enabled
          /\ Assembled(r)
          /\ PushCount(r) = 1
          /\ Len(r.sealing.queue.items) > 0
    /\ ~r.ret =>
          /\ ~Assembled(r)
          /\ r.sealing.queue = sealing.queue
          /\ r.sealing.enabled = sealing.enabled
    /\ r.chain = chain
    /\ r.sealing.sealing_block_last_request = chain.best_number

\* C28: prepare_work_sealing returns true if and only if the work history was
\* empty when it was entered; then it sets enabled, assembles a block and hands
\* it to prepare_work, so the history is non-empty when it returns. In both cases
\* sealing_block_last_request equals the chain's best block number on return.
C28_PrepareWorkSealing ==
    \A oc \in Outcomes(pool.txs) : WorkPrepared(prepare_work_sealing(Miner, oc))

\* a work request on an empty history, after the chain grew, returned true and
\* left a candidate; the next request returns false
C28_Witness ==
    /\ out.op = "prepare_work_sealing" /\ out.ret = TRUE
    /\ chain.best_number > 0
    /\ Len(Items) > 0 /\ sealing.enabled
    /\ sealing.sealing_block_last_request = chain.best_number
    /\ \A oc \in Outcomes(pool.txs) : prepare_work_sealing(Miner, oc).ret = FALSE


\* C29 as stated: while sealing is enabled sealing_block_last_request never
\* decreases, also when work requests interleave with reorganisations.
C29_LastRequestNeverDecreases ==
    [][(sealing.enabled /\ sealing'.enabled) =>
          sealing'.sealing_block_last_request >= sealing.sealing_block_last_request]_vars

\* C29: every write sets sealing_block_last_request to the chain's best block
\* number, so it does not decrease as long as the best block number is not below
\* the recorded value.
C29_LastRequestFollowsBestNumber ==
    [][/\ sealing'.sealing_block_last_request # sealing.sealing_block_last_request =>
             sealing'.sealing_block_last_request = chain'.best_number
       /\ sealing.sealing_block_last_request <= chain'.best_number =>
             sealing'.sealing_block_last_request >= sealing.sealing_block_last_request]_vars

\* after the chain grew and changed its head twice, an own transaction's work
\* request recorded the best block number
C29_Witness ==
    /\ out.op = "import_own_transaction"
    /\ sealing.enabled
    /\ chain.heads >= 2 /\ chain.best_number > 0
    /\ sealing.sealing_block_last_request = chain.best_number


---------------------------------------------------------------------------
(* Refusals of seal_and_import_block_internally *)

\* the blocks the sealing step is given: the candidates of the history and
\* blocks on the best block holding any of the pool's transactions
SealBlocks ==
    Range(Items)
        \cup { [PrepareOpenBlock(Miner) EXCEPT !.txs = SortedSeq(S)] : S \in SUBSET pool.txs }

\* the block has no transactions, sealing is not forced, the deadline has not passed
Refused(block) ==
    /\ Len(block.txs) = 0
    /\ ~options.force_sealing /\ listeners = 0
    /\ now <= sealing.next_mandatory_reseal

\* r returned false and left the sealing state and the chain as they were
NothingSealed(r) ==
    /\ r.ret = FALSE
    /\ r.sealing = sealing
    /\ r.chain = chain
    /\ PushCount(r) = 0
    /\ \A i \in 1..Len(r.trace) :
          r.trace[i] \notin { [k |-> "chain", f |-> "import_sealed_block"],
                              [k |-> "chain", f |-> "broadcast_proposal_block"] }

\* seal_and_import_block_internally, given block and the answers e, returned r
RefusesToSeal(block, e, r) ==
    /\ Refused(block) =>
          /\ NothingSealed(r)
          /\ ~AskedForSeal(r)
          /\ \A i \in 1..Len(r.trace) : r.trace[i].k \notin {"chain", "engine"}
    /\ (~Refused(block) /\ ~e.parent_known) => (NothingSealed(r) /\ ~AskedForSeal(r))
    /\ (~Refused(block) /\ e.parent_known /\ e.seal = "None") =>
          (NothingSealed(r) /\ AskedForSeal(r))

\* C30: seal_and_import_block_internally refuses (returns false without asking
\* the engine for a seal and without changing next_mandatory_reseal or the work
\* history) when the block has no transactions, sealing is not forced and
\* now <= next_mandatory_reseal; it also returns false without sealing when the
\* parent header is missing or the engine answers Seal::None.
C30_SealRefusals ==
    \A block \in SealBlocks, e \in SealChoices(Miner) :
        RefusesToSeal(block, e, seal_and_import_block_internally(Miner, block, e))

\* an unforced miner that sealed before was just refused a seal of a block
\* without transactions; a block holding a transaction would get past the gate
\* and still not be sealed when the parent is missing or the engine declines
C30_Witness ==
    /\ out.op = "seal_and_import_block_internally" /\ out.ret = FALSE
    /\ Refused(PrepareOpenBlock(Miner))
    /\ sealing.next_mandatory_reseal > 0
    /\ \E block \in SealBlocks : Len(block.txs) > 0
    /\ \E block \in SealBlocks, e \in SealChoices(Miner) :
          ~Refused(block) /\ ~e.parent_known
    /\ \E block \in SealBlocks, e \in SealChoices(Miner) :
          ~Refused(block) /\ e.parent_known /\ e.seal = "None"


---------------------------------------------------------------------------
(* The seals of seal_and_import_block_internally *)

\* whether a handler made the call f to the chain client
CalledChain(r, f) == \E i \in 1..Len(r.trace) : r.trace[i] = [k |-> "chain", f |-> f]

\* the arm Seal::Proposal, given block and the answers e, returned r
ProposalKept(block, e, r) ==
    /\ PushCount(r) = 1
    /\ Len(r.sealing.queue.items) > 0
    /\ r.sealing.queue.items[Len(r.sealing.queue.items)] = block
    /\ r.sealing.queue.in_use
    /\ r.sealing.next_mandatory_reseal = now + options.reseal_max_period
    /\ ~CalledChain(r, "import_sealed_block")
    /\ r.chain = chain
    /\ CalledChain(r, "broadcast_proposal_block") <=> e.seal_ok
    /\ r.ret = e.seal_ok

\* the arm Seal::Regular, given block and the answers e, returned r
RegularImported(block, e, r) ==
    /\ r.sealing.next_mandatory_reseal = now + options.reseal_max_period
    /\ PushCount(r) = 0
    /\ r.sealing.queue = sealing.queue
    /\ ~CalledChain(r, "broadcast_proposal_block")
    /\ CalledChain(r, "import_sealed_block") <=> e.seal_ok
    /\ r.ret = (e.seal_ok /\ e.import_ok)
    /\ r.chain = IF e.seal_ok /\ e.import_ok THEN ImportSealedBlock(chain, block) ELSE chain

\* C31: on a Proposal seal seal_and_import_block_internally pushes the candidate
\* into the work history, marks it in use, sets next_mandatory_reseal to
\* now + reseal_max_period, and broadcasts the sealed block as a proposal without
\* importing it; on a Regular seal it sets next_mandatory_reseal the same way,
\* pushes nothing, and imports the sealed block, returning true exactly when the
\* import succeeded. A seal that does not fit the block leaves no sealed block:
\* then nothing is broadcast or imported and the result is false.
C31_ProposalAndRegularSeals ==
    \A block \in SealBlocks, e \in SealChoices(Miner) :
        (~Refused(block) /\ e.parent_known) =>
            /\ e.seal = "Proposal" =>
                  ProposalKept(block, e, seal_and_import_block_internally(Miner, block, e))
            /\ e.seal = "Regular" =>
                  RegularImported(block, e, seal_and_import_block_internally(Miner, block, e))

\* a Proposal seal was just produced: the candidate is in the history and in
\* use, the deadline is one period ahead, the chain has not grown; a Regular
\* seal of a block holding a transaction would be imported
C31_Witness ==
    /\ out.op = "seal_and_import_block_internally" /\ out.ret = TRUE
    /\ Len(Items) > 0 /\ sealing.queue.in_use
    /\ sealing.next_mandatory_reseal = now + options.reseal_max_period
    /\ chain.best_number = 0
    /\ \E block \in SealBlocks, e \in SealChoices(Miner) :
          /\ Len(block.txs) > 0 /\ e.seal = "Regular"
          /\ seal_and_import_block_internally(Miner, block, e).ret
          /\ seal_and_import_block_internally(Miner, block, e).chain.best_number = 1


---------------------------------------------------------------------------
(* The enabled flag *)

\* the entry points that write the enabled flag or reach requires_reseal, and the
\* chain growing
NextEnabled ==
    \/ UpdateSealing
    \/ PrepareWorkSealing
    \/ ImportOwnTransaction
    \/ ChainNewBlocks
    \/ SetAuthor
    \/ AddWorkListener
    \/ AddBlocks

\* the test miner on any engine, with or without an account provider
SpecEnabled == InitAuthor /\ [][NextEnabled]_vars

---------------------------------------------------------------------------
(* Failures of set_author *)

\* set_author returned r with an error
FailedUnchanged(r) ==
    r.ret \in {"NotFound", "SignError"} =>
        /\ r.params.author = params.author
        /\ r.sealing.enabled = sealing.enabled
        /\ r.engine.signer = engine.signer

\* C33: when set_author returns an error (no account provider, or the test
\* signature fails) the miner's state is as before the call: the author of the
\* authoring parameters, the enabled flag and the engine's signer are unchanged.
C33_FailedSetAuthorChangesNothing ==
    \A address \in 0..MaxParam, sign_ok \in BOOLEAN :
        FailedUnchanged(set_author(Miner, address, sign_ok))

\* the part of the statement the code keeps: a failed set_author leaves the
\* enabled flag and the engine's signer as they were
SetAuthorFailureKeepsSealing ==
    \A address \in 0..MaxParam, sign_ok \in BOOLEAN :
        set_author(Miner, address, sign_ok).ret \in {"NotFound", "SignError"} =>
            /\ set_author(Miner, address, sign_ok).sealing = sealing
            /\ set_author(Miner, address, sign_ok).engine.signer = engine.signer

=============================================================================
